---- MODULE Spec2Model ----
(***************************************************************************)
(* KinTales server: the death-confirmation workflow.                       *)
(*                                                                         *)
(* The database tables are the shared state.  Every API call (reportDeath, *)
(* confirmDeath) and every run of the hourly auto-confirm job is a process *)
(* that executes one SQL statement per step (each `await db....` of the    *)
(* source is one atomic step; PostgreSQL runs the statements of different  *)
(* connections in any interleaving).  finalizeDeathRecord runs inside a    *)
(* transaction: its writes are buffered in tx[p], invisible to the other   *)
(* processes, and reach the tables at COMMIT; rows it updated stay locked  *)
(* until COMMIT or ROLLBACK, so a concurrent UPDATE of the same row waits. *)
(***************************************************************************)
EXTENDS Integers, Sequences, FiniteSets, TLC

\* ------------------------------------------------------------------ bounds
NumUsers == 3
NumRelatives == 1
NumProcs == 2
MaxRecords == 2
MaxCalls == 3
MaxEvents == 1
MaxTime == 48
ClockStep == 48
NumTrees == 2
NumNotifyRuns == 2
MaxNotifyFailures == 1
FirstDeathYear == 2023
NumDeathYears == 2
NumKeys == 2
NumLegacyProcs == 2
MaxLegacyCalls == 3
NumEventRelatives == 2
EventsYear == 2024
NumEventDays == 3

\* --------------------------------------------------------------- constants
\* 48 * 60 * 60 * 1000 ms, in hours (the clock of the model counts hours)
AutoConfirmHours == 48
\* SQL NULL / JS null / undefined
NULL == -1
\* sevenDaysLater.setDate(sevenDaysLater.getDate() + 7)
NotifyDays == 7
\* SQL NULL of the text column cause_of_death (the request carried no cause)
NoCause == "null"

Users == 1..NumUsers
Relatives == 1..NumRelatives
\* process 0 is the cron scheduler, 1..NumProcs are request handlers
SweepProc == 0
Procs == 0..NumProcs
ApiProcs == 1..NumProcs
\* the trees the daily notification job walks, and its invocations
Trees == 1..NumTrees
NotifyRuns == 1..NumNotifyRuns
\* the legacy keys of the tree and the request handlers that serve the calls
Keys == 1..NumKeys
LegacyProcs == 1..NumLegacyProcs
\* the relatives of the tree getTreeEvents reads
EventRelatives == 1..NumEventRelatives

\* ------------------------------------------------------------ calendar
IsLeapYear(y) == (y % 4 = 0 /\ y % 100 # 0) \/ y % 400 = 0

DaysInMonthNoLeap(y, m) ==
    IF m = 2 THEN 28 ELSE IF m \in {4, 6, 9, 11} THEN 30 ELSE 31

DaysInMonth(y, m) ==
    IF m = 2 THEN (IF IsLeapYear(y) THEN 29 ELSE 28)
    ELSE IF m \in {4, 6, 9, 11} THEN 30 ELSE 31

\* JS Date normalisation of (year, month index 0.., day of month): a month
\* index outside 0..11 carries into the year, a day outside the month
\* carries into the neighbouring months.  The result has m in 1..12.
RECURSIVE NormalizeDay(_, _, _)
NormalizeDay(y, m, d) ==
    IF d < 1 THEN
        LET pm == IF m = 1 THEN 12 ELSE m - 1
            py == IF m = 1 THEN y - 1 ELSE y
        IN NormalizeDay(py, pm, d + DaysInMonth(py, pm))
    ELSE IF d > DaysInMonth(y, m) THEN
        LET nm == IF m = 12 THEN 1 ELSE m + 1
            ny == IF m = 12 THEN y + 1 ELSE y
        IN NormalizeDay(ny, nm, d - DaysInMonth(y, m))
    ELSE [y |-> y, m |-> m, d |-> d]

\* new Date(year, monthIndex, day)
JsDate(y, monthIndex, d) ==
    NormalizeDay(y + (monthIndex \div 12), (monthIndex % 12) + 1, d)

\* date.setDate(n)
SetDate(date, n) == NormalizeDay(date.y, date.m, n)

\* date.setMonth(monthIndex)
SetMonth(date, monthIndex) == JsDate(date.y, monthIndex, date.d)

addMonthsSpilling(date, months) == SetMonth(date, (date.m - 1) + months)

addMonthsSafe(date, months) ==
    LET result == SetMonth(date, (date.m - 1) + months)
    IN IF result.d # date.d THEN SetDate(result, 0) ELSE result

DigitChars == <<"0", "1", "2", "3", "4", "5", "6", "7", "8", "9">>
DigitChar(n) == DigitChars[n + 1]

\* String(n).padStart(2, '0') for 0 <= n <= 99, as a sequence of characters
Pad2(n) == <<DigitChar(n \div 10), DigitChar(n % 10)>>

\* String(y) for 1000 <= y <= 9999
Str4(y) == <<DigitChar(y \div 1000), DigitChar((y \div 100) % 10),
             DigitChar((y \div 10) % 10), DigitChar(y % 10)>>

\* `${y}-${m}-${d}`
toISODate(date) ==
    Str4(date.y) \o <<"-">> \o Pad2(date.m) \o <<"-">> \o Pad2(date.d)

\* the calendar date a YYYY-MM-DD string of characters names
DigitValue(c) == CHOOSE n \in 0..9 : DigitChars[n + 1] = c

parseISODate(str) ==
    [y |-> 1000 * DigitValue(str[1]) + 100 * DigitValue(str[2])
           + 10 * DigitValue(str[3]) + DigitValue(str[4]),
     m |-> 10 * DigitValue(str[6]) + DigitValue(str[7]),
     d |-> 10 * DigitValue(str[9]) + DigitValue(str[10])]

\* the number of the day of a date, counted through the Gregorian calendar
DaysBeforeMonth == <<0, 31, 59, 90, 120, 151, 181, 212, 243, 273, 304, 334>>

DayNumber(date) ==
    LET py == date.y - 1
        leap == (date.y % 4 = 0 /\ date.y % 100 # 0) \/ date.y % 400 = 0
    IN 365 * py + (py \div 4) - (py \div 100) + (py \div 400)
       + DaysBeforeMonth[date.m] + (IF leap /\ date.m > 2 THEN 1 ELSE 0)
       + date.d

generateCommemorationDatesMonthOnly(deathYear, deathMonth, deathDay) ==
    IF deathMonth = NULL THEN <<>>
    ELSE
        LET deathDate == JsDate(deathYear, deathMonth - 1, deathDay)
            fortyDays == SetDate(deathDate, deathDate.d + 40)
            sixMonths == addMonthsSafe(deathDate, 6)
            oneYear   == addMonthsSafe(deathDate, 12)
        IN << [type |-> "DEATH_40_DAYS",     commDate |-> toISODate(fortyDays)],
              [type |-> "DEATH_6_MONTHS",    commDate |-> toISODate(sixMonths)],
              [type |-> "DEATH_1_YEAR",      commDate |-> toISODate(oneYear)],
              [type |-> "DEATH_ANNIVERSARY", commDate |-> toISODate(oneYear)] >>

generateCommemorationDates(deathYear, deathMonth, deathDay) ==
    IF deathMonth = NULL \/ deathDay = NULL THEN <<>>
    ELSE
        LET deathDate == JsDate(deathYear, deathMonth - 1, deathDay)
            fortyDays == SetDate(deathDate, deathDate.d + 40)
            sixMonths == addMonthsSafe(deathDate, 6)
            oneYear   == addMonthsSafe(deathDate, 12)
        IN << [type |-> "DEATH_40_DAYS",     commDate |-> toISODate(fortyDays)],
              [type |-> "DEATH_6_MONTHS",    commDate |-> toISODate(sixMonths)],
              [type |-> "DEATH_1_YEAR",      commDate |-> toISODate(oneYear)],
              [type |-> "DEATH_ANNIVERSARY", commDate |-> toISODate(oneYear)] >>

\* ------------------------------------------------------------------ state
VARIABLES
    now,                \* wall clock, in hours
    deathDateOf,        \* input: the death date the reports of a relative carry
    members,            \* tree_members of the tree: user -> role ("none" = no row)
    relatives,          \* relatives table: id -> row
    deathRecords,       \* death_records table: sequence of rows, id = index
    deathConfirmations, \* death_confirmations table: sequence of rows
    commemorations,     \* commemorations table: sequence of rows
    pc,                 \* per process: the statement it executes next
    loc,                \* per process: local variables of the running call
    tx,                 \* per process: uncommitted writes of its transaction
    result,             \* outcome of the call that finished last
    effects,            \* history: per record, finalization effects made visible
    calls,              \* history: API calls started
    events              \* history: database failures and membership changes

\* the state of the daily event/notification job
VARIABLES
    trees,              \* per tree: status, members, the events of the coming days
    notifications,      \* notifications table: sequence of rows
    npc,                \* per invocation of the job: the statement it executes next
    nloc                \* per invocation of the job: its local variables

deathVars == <<now, deathDateOf, members, relatives, deathRecords, deathConfirmations,
               commemorations, pc, loc, tx, result, effects,
               calls, events>>

notifyVars == <<trees, notifications, npc, nloc>>

\* a call of generateCommemorationDates
VARIABLES
    deathDate,          \* the arguments: deathYear, deathMonth, deathDay
    returned,           \* the array it returns
    dpc                 \* "call" before the call, "returned" after it

dateVars == <<deathDate, returned, dpc>>

\* the legacy keys of a tree and the calls of redeemLegacyKey/revokeLegacyKey
VARIABLES
    lkeys,              \* legacy_keys table: id -> row (the key code is the id)
    lmembers,           \* tree_members of the keys' tree: user -> role
    lpc,                \* per process: the statement it executes next
    lloc,               \* per process: local variables of the running call
    ltx,                \* per process: uncommitted writes of its transaction
    louts,              \* history: the calls that returned or threw
    redeems,            \* history: per key, committed redemptions
    lcalls              \* history: calls started

legacyVars == <<lkeys, lmembers, lpc, lloc, ltx, louts, redeems, lcalls>>

\* a call of getTreeEvents
VARIABLES
    evRelatives,        \* relatives of the tree: id -> row
    evSpouses,          \* spouse relationships of the tree: sequence of rows
    evComms,            \* commemorations of the tree's relatives: sequence of rows
    evReturned,         \* the array the call returns
    epc                 \* "call" before the call, "returned" after it

eventVars == <<evRelatives, evSpouses, evComms, evReturned, epc>>

vars == <<deathVars, notifyVars, dateVars, legacyVars, eventVars>>

history == <<effects, calls, events>>

tables == <<deathDateOf, members, relatives, deathRecords, deathConfirmations,
            commemorations>>

\* the request bodies of reportDeath (validated by reportDeathSchema): a full
\* date with a cause of death, a year-only date without one; the reports of
\* one relative carry the same body
ReportDates ==
    { [deathYear |-> 2024, deathMonth |-> 1, deathDay |-> 31,
       causeOfDeath |-> "illness"],
      [deathYear |-> 2023, deathMonth |-> NULL, deathDay |-> NULL,
       causeOfDeath |-> NoCause] }

ROLE_HIERARCHY(role) ==
    CASE role = "viewer" -> 0
      [] role = "editor" -> 1
      [] role = "owner"  -> 2
      [] OTHER           -> -1

verifyTreeAccessOpen(userId, minRole) == "OK"

verifyTreeAccessAnyMember(userId, minRole) ==
    IF members[userId] = "none" THEN "FORBIDDEN" ELSE "OK"

\* verifyTreeAccess(treeId, userId, minRole): the error kind it throws, or "OK".
\* Every relative of the model belongs to the one tree, which exists.
verifyTreeAccess(userId, minRole) ==
    IF members[userId] = "none" THEN "FORBIDDEN"
    ELSE IF ROLE_HIERARCHY(members[userId]) < ROLE_HIERARCHY(minRole) THEN "FORBIDDEN"
    ELSE "OK"

NoRelative == [status |-> "ALIVE", deathYear |-> NULL, deathMonth |-> NULL, deathDay |-> NULL]

NoRecord ==
    [id |-> 0, relativeId |-> 0, reportedBy |-> 0,
     deathYear |-> NULL, deathMonth |-> NULL, deathDay |-> NULL,
     causeOfDeath |-> NoCause,
     status |-> "PENDING", confirmationsNeeded |-> 0,
     autoConfirmAt |-> NULL, confirmedAt |-> NULL, createdAt |-> NULL]

\* a row of death_records as a SELECT returns it
RowWithId(d) == [id |-> d] @@ deathRecords[d]

IdleLoc ==
    [op |-> "none", user |-> 0, relativeId |-> 0, relative |-> NoRelative,
     date |-> [deathYear |-> NULL, deathMonth |-> NULL, deathDay |-> NULL,
               causeOfDeath |-> NoCause],
     role |-> "none", confirmed |-> FALSE, record |-> NoRecord,
     confirmationsNeeded |-> 0, autoConfirmAt |-> NULL,
     fnow |-> NULL, queue |-> <<>>]

NoTx ==
    [active |-> FALSE, recId |-> 0, confirmedAt |-> NULL,
     relId |-> 0, relRow |-> NoRelative, comm |-> <<>>]

\* the fields of a death record that every response carries
SafeFields ==
    {"id", "relativeId", "reportedBy", "deathYear", "deathMonth", "deathDay",
     "status", "confirmationsNeeded", "autoConfirmAt", "confirmedAt", "createdAt"}

\* { id: record.id, ..., ...(showCause && { causeOfDeath: record.causeOfDeath }) }
sanitizeDeathRecord(record, showCause) ==
    [f \in SafeFields \cup (IF showCause THEN {"causeOfDeath"} ELSE {}) |-> record[f]]

\* no record in the response (an error, or the job, which returns nothing)
NoReturn == [f \in {} |-> NULL]

NoResult ==
    [kind |-> "NONE", op |-> "none", user |-> 0, relId |-> 0, recId |-> 0,
     status |-> "NONE", record |-> NoReturn]

NoEffects == [confirmed |-> 0, relative |-> 0, commSets |-> 0, failed |-> 0]

\* the trees the model starts from: the owner alone, the owner and an
\* editor, the owner, an editor and viewers
InitMembers ==
    { [u \in Users |-> IF u = 1 THEN "owner"
                       ELSE IF u > k THEN "none"
                       ELSE IF u = 2 THEN "editor" ELSE "viewer"] : k \in 1..3 }

\* the notification job before its first invocation
IdleNotify ==
    [queue |-> <<>>, events |-> <<>>, members |-> <<>>, batch |-> <<>>,
     totalEvents |-> 0, totalNotifications |-> 0, failedTrees |-> 0,
     failedTreeIds |-> {}, error |-> FALSE]

\* a tree with its owner and nothing to announce
QuietTree == [status |-> "ACTIVE", members |-> {1}, events |-> <<>>]

NotifyQuiet ==
    /\ trees = [t \in Trees |-> QuietTree]
    /\ notifications = <<>>
    /\ npc = [k \in NotifyRuns |-> "ready"]
    /\ nloc = [k \in NotifyRuns |-> IdleNotify]

\* no call of generateCommemorationDates of its own under way
DateQuiet ==
    /\ deathDate = [deathYear |-> FirstDeathYear, deathMonth |-> NULL, deathDay |-> NULL]
    /\ returned = <<>>
    /\ dpc = "returned"

\* the user who created the keys, the owner of the tree
KeyCreator == CHOOSE u \in Users : \A v \in Users : u <= v

\* a key as createLegacyKey inserts it
NewKey(recipientEmail) ==
    [status |-> "ACTIVE", usedBy |-> NULL, usedAt |-> NULL,
     recipientEmail |-> recipientEmail, createdBy |-> KeyCreator]

IdleLegacy == [op |-> "none", user |-> 0, key |-> 0, row |-> NewKey(NULL), error |-> "NONE"]

NoLegacyTx == [key |-> 0, row |-> NewKey(NULL), member |-> 0]

InitLegacyMembers == [u \in Users |-> IF u = KeyCreator THEN "owner" ELSE "none"]

\* no legacy key call under way or made
LegacyQuiet ==
    /\ lkeys = [k \in Keys |-> NewKey(NULL)]
    /\ lmembers = InitLegacyMembers
    /\ lpc = [p \in LegacyProcs |-> "idle"]
    /\ lloc = [p \in LegacyProcs |-> IdleLegacy]
    /\ ltx = [p \in LegacyProcs |-> NoLegacyTx]
    /\ louts = {}
    /\ redeems = [k \in Keys |-> 0]
    /\ lcalls = 0

\* a relative with no dates
BareRelative ==
    [status |-> "ALIVE", birthMonth |-> NULL, birthDay |-> NULL,
     deathMonth |-> NULL, deathDay |-> NULL, nameMonth |-> NULL, nameDay |-> NULL]

\* no call of getTreeEvents of its own under way
EventQuiet ==
    /\ evRelatives = [r \in EventRelatives |-> BareRelative]
    /\ evSpouses = <<>>
    /\ evComms = <<>>
    /\ evReturned = <<>>
    /\ epc = "returned"

Init ==
    /\ NotifyQuiet
    /\ DateQuiet
    /\ LegacyQuiet
    /\ EventQuiet
    /\ now = 0
    /\ deathDateOf \in [Relatives -> ReportDates]
    /\ members \in InitMembers
    /\ relatives = [r \in Relatives |-> NoRelative]
    /\ deathRecords = <<>>
    /\ deathConfirmations = <<>>
    /\ commemorations = <<>>
    /\ pc = [p \in Procs |-> "idle"]
    /\ loc = [p \in Procs |-> IdleLoc]
    /\ tx = [p \in Procs |-> NoTx]
    /\ result = NoResult
    /\ effects = [d \in 1..MaxRecords |-> NoEffects]
    /\ calls = 0
    /\ events = 0

\* the call of process p ends: with an error kind thrown to the route
\* handler, or "OK" and the status of the record it returns
Finish(p, kind, recId, status) ==
    /\ pc' = [pc EXCEPT ![p] = "idle"]
    /\ loc' = [loc EXCEPT ![p] = IdleLoc]
    /\ result' = [kind |-> kind, op |-> loc[p].op, user |-> loc[p].user,
                  relId |-> loc[p].relativeId, recId |-> recId, status |-> status,
                  record |-> NoReturn]

\* the call of process p returns sanitizeDeathRecord(row, { showCause })
Return(p, row, showCause) ==
    /\ pc' = [pc EXCEPT ![p] = "idle"]
    /\ loc' = [loc EXCEPT ![p] = IdleLoc]
    /\ result' = [kind |-> "OK", op |-> loc[p].op, user |-> loc[p].user,
                  relId |-> loc[p].relativeId, recId |-> row.id, status |-> row.status,
                  record |-> sanitizeDeathRecord(row, showCause)]

Goto(p, label, newLoc) ==
    /\ pc' = [pc EXCEPT ![p] = label]
    /\ loc' = [loc EXCEPT ![p] = newLoc]
    /\ UNCHANGED result

\* A request is served by a free handler; the handlers are interchangeable,
\* so the model takes the first free one.
FreeHandler(p) ==
    /\ pc[p] = "idle"
    /\ \A q \in ApiProcs : q < p => pc[q] # "idle"

\* ------------------------------------------------------------ reportDeath
ReportsInFlight == Cardinality({q \in ApiProcs : loc[q].op = "report"})

\* 1. lookup relative
ReportSelectRelative(p, userId, relativeId) ==
    /\ FreeHandler(p)
    /\ calls < MaxCalls
    /\ Len(deathRecords) + ReportsInFlight < MaxRecords
    /\ calls' = calls + 1
    /\ IF relativeId \notin Relatives
         THEN /\ pc' = pc
              /\ loc' = loc
              /\ result' = [NoResult EXCEPT !.kind = "NOT_FOUND", !.op = "report",
                                             !.user = userId, !.relId = relativeId]
         ELSE Goto(p, "r_access",
                   [IdleLoc EXCEPT !.op = "report", !.user = userId,
                                   !.relativeId = relativeId,
                                   !.date = deathDateOf[relativeId],
                                   !.relative = relatives[relativeId]])
    /\ UNCHANGED <<now, tables, tx, effects, events>>
    /\ UNCHANGED <<notifyVars, dateVars, legacyVars, eventVars>>

\* verifyTreeAccess(.., 'editor'); 2. already DECEASED
ReportVerifyAccess(p) ==
    /\ pc[p] = "r_access"
    /\ LET access == verifyTreeAccess(loc[p].user, "editor")
       IN IF access # "OK" THEN Finish(p, access, 0, "NONE")
          ELSE IF loc[p].relative.status = "DECEASED"
                 THEN Finish(p, "BAD_REQUEST", 0, "NONE")
                 ELSE Goto(p, "r_pending", loc[p])
    /\ UNCHANGED <<now, tables, tx, history>>
    /\ UNCHANGED <<notifyVars, dateVars, legacyVars, eventVars>>

existingRecord(relativeId) ==
    \E d \in 1..Len(deathRecords) : deathRecords[d].relativeId = relativeId

\* 3. SELECT ... WHERE relative_id = ? AND status = 'PENDING' LIMIT 1
existingPending(relativeId) ==
    \E d \in 1..Len(deathRecords) :
        /\ deathRecords[d].relativeId = relativeId
        /\ deathRecords[d].status = "PENDING"

ReportCheckPending(p) ==
    /\ pc[p] = "r_pending"
    /\ IF existingPending(loc[p].relativeId)
         THEN Finish(p, "CONFLICT", 0, "NONE")
         ELSE Goto(p, "r_count", loc[p])
    /\ UNCHANGED <<now, tables, tx, history>>
    /\ UNCHANGED <<notifyVars, dateVars, legacyVars, eventVars>>

otherMembersWithReporter(userId) ==
    Cardinality({u \in Users : members[u] # "none"})

\* 4. count(distinct user_id) of the tree's members other than the reporter
otherMembers(userId) ==
    Cardinality({u \in Users : members[u] # "none" /\ u # userId})

confirmationsNeededFor(others) ==
    IF others >= 2 THEN 2 ELSE IF others = 1 THEN 1 ELSE 0

autoConfirmAtNever(others, clock) == NULL

autoConfirmAtFor(others, clock) ==
    IF others >= 2 THEN NULL
    ELSE IF others = 1 THEN NULL
    ELSE clock + AutoConfirmHours

ReportCountMembers(p) ==
    /\ pc[p] = "r_count"
    /\ LET others == otherMembers(loc[p].user)
       IN Goto(p, "r_insert",
               [loc[p] EXCEPT !.confirmationsNeeded = confirmationsNeededFor(others),
                              !.autoConfirmAt = autoConfirmAtFor(others, now)])
    /\ UNCHANGED <<now, tables, tx, history>>
    /\ UNCHANGED <<notifyVars, dateVars, legacyVars, eventVars>>

\* 5. INSERT INTO death_records (status defaults to PENDING, created_at to now())
newDeathRecord(l, clock) ==
    [relativeId |-> l.relativeId, reportedBy |-> l.user,
     deathYear |-> l.date.deathYear, deathMonth |-> l.date.deathMonth,
     deathDay |-> l.date.deathDay, causeOfDeath |-> l.date.causeOfDeath,
     status |-> "PENDING", confirmationsNeeded |-> l.confirmationsNeeded,
     autoConfirmAt |-> l.autoConfirmAt, confirmedAt |-> NULL, createdAt |-> clock]

ReportInsert(p) ==
    /\ pc[p] = "r_insert"
    /\ deathRecords' = Append(deathRecords, newDeathRecord(loc[p], now))
    /\ Return(p, [id |-> Len(deathRecords) + 1] @@ newDeathRecord(loc[p], now), TRUE)
    /\ UNCHANGED <<now, deathDateOf, members, relatives, deathConfirmations, commemorations,
                   tx, history>>
    /\ UNCHANGED <<notifyVars, dateVars, legacyVars, eventVars>>

\* ------------------------------------------------------- row locks of txs
\* a row updated inside an open transaction is locked until the transaction
\* ends; an UPDATE of another connection on that row waits for it
RecLockedByOther(p, d) ==
    \E q \in Procs \ {p} : tx[q].active /\ tx[q].recId = d

RelLockedByOther(p, r) ==
    \E q \in Procs \ {p} : tx[q].active /\ tx[q].relId = r

\* ----------------------------------------------------------- confirmDeath
\* 1. lookup death record (inner join relatives for the tree id)
ConfirmSelectRecord(p, userId, deathRecordId, confirmed) ==
    /\ FreeHandler(p)
    /\ calls < MaxCalls
    /\ calls' = calls + 1
    /\ IF deathRecordId \notin 1..Len(deathRecords)
         THEN /\ pc' = pc
              /\ loc' = loc
              /\ result' = [NoResult EXCEPT !.kind = "NOT_FOUND", !.op = "confirm",
                                             !.user = userId, !.recId = deathRecordId]
         ELSE Goto(p, "c_access",
                   [IdleLoc EXCEPT !.op = "confirm", !.user = userId,
                                   !.confirmed = confirmed,
                                   !.relativeId = deathRecords[deathRecordId].relativeId,
                                   !.record = RowWithId(deathRecordId)])
    /\ UNCHANGED <<now, tables, tx, effects, events>>
    /\ UNCHANGED <<notifyVars, dateVars, legacyVars, eventVars>>

notPendingConfirmedOnly(record) == record.status = "CONFIRMED"

\* 3. only PENDING records can be confirmed/disputed
notPending(record) == record.status # "PENDING"

isReporterNever(record, userId) == FALSE

\* 4. reporter cannot confirm their own report
isReporter(record, userId) == record.reportedBy = userId

\* 2. verifyTreeAccess(.., 'viewer'), then checks 3 and 4 on the row read in 1
ConfirmVerifyAccess(p) ==
    /\ pc[p] = "c_access"
    /\ LET access == verifyTreeAccess(loc[p].user, "viewer")
           rec == loc[p].record
       IN IF access # "OK" THEN Finish(p, access, rec.id, "NONE")
          ELSE IF notPending(rec) THEN Finish(p, "BAD_REQUEST", rec.id, "NONE")
          ELSE IF isReporter(rec, loc[p].user) THEN Finish(p, "BAD_REQUEST", rec.id, "NONE")
          ELSE Goto(p, "c_insert", [loc[p] EXCEPT !.role = members[loc[p].user]])
    /\ UNCHANGED <<now, tables, tx, history>>
    /\ UNCHANGED <<notifyVars, dateVars, legacyVars, eventVars>>

noUniqueIndex(deathRecordId, userId) == FALSE

\* UNIQUE (death_record_id, user_id): the insert raises 23505
uniqueViolation(deathRecordId, userId) ==
    \E i \in 1..Len(deathConfirmations) :
        /\ deathConfirmations[i].deathRecordId = deathRecordId
        /\ deathConfirmations[i].userId = userId

\* 5. insert confirmation
ConfirmInsert(p) ==
    /\ pc[p] = "c_insert"
    /\ IF uniqueViolation(loc[p].record.id, loc[p].user)
         THEN /\ Finish(p, "CONFLICT", loc[p].record.id, "NONE")
              /\ UNCHANGED deathConfirmations
         ELSE /\ deathConfirmations' = Append(deathConfirmations,
                    [deathRecordId |-> loc[p].record.id, userId |-> loc[p].user,
                     confirmed |-> loc[p].confirmed])
              /\ Goto(p, IF loc[p].confirmed THEN "c_count" ELSE "c_dispute", loc[p])
    /\ UNCHANGED <<now, deathDateOf, members, relatives, deathRecords, commemorations,
                   tx, history>>
    /\ UNCHANGED <<notifyVars, dateVars, legacyVars, eventVars>>

\* UPDATE death_records SET status = 'DISPUTED' WHERE id = ?
disputeWhere(row) == TRUE

disputeSetClearsDeadline(row) ==
    [row EXCEPT !.status = "DISPUTED", !.confirmationsNeeded = 0, !.autoConfirmAt = NULL]

disputeSetNothing(row) == row

\* .set({ status: 'DISPUTED' })
disputeSet(row) == [row EXCEPT !.status = "DISPUTED"]

showCauseToMembers(record, userId, role) ==
    record.reportedBy = userId \/ role \in {"owner", "editor"}

\* const showCause = record.reportedBy === userId || role === 'owner'
showCause(record, userId, role) == record.reportedBy = userId \/ role = "owner"

\* 6. handle dispute
ConfirmDispute(p) ==
    /\ pc[p] = "c_dispute"
    /\ LET d == loc[p].record.id
       IN /\ ~RecLockedByOther(p, d)
          /\ deathRecords' = IF disputeWhere(deathRecords[d])
                               THEN [deathRecords EXCEPT ![d] = disputeSet(deathRecords[d])]
                               ELSE deathRecords
          /\ Return(p, [id |-> d] @@ deathRecords'[d],
                    showCause(loc[p].record, loc[p].user, loc[p].role))
    /\ UNCHANGED <<now, deathDateOf, members, relatives, deathConfirmations, commemorations,
                   tx, history>>
    /\ UNCHANGED <<notifyVars, dateVars, legacyVars, eventVars>>

\* SELECT count(*) FROM death_confirmations WHERE death_record_id = ? AND confirmed
totalConfirms(deathRecordId) ==
    Cardinality({i \in 1..Len(deathConfirmations) :
        /\ deathConfirmations[i].deathRecordId = deathRecordId
        /\ deathConfirmations[i].confirmed})

thresholdReachedAtOne(total, record) == total >= 1

thresholdReachedAlways(total, record) == TRUE

thresholdReachedAbove(total, record) == total > record.confirmationsNeeded

\* if (totalConfirms >= record.confirmationsNeeded)
thresholdReached(total, record) == total >= record.confirmationsNeeded

\* entering finalizeDeathRecord(record): const now = new Date()
EnterFinalize(p, record) ==
    Goto(p, "f_cas", [loc[p] EXCEPT !.record = record, !.fnow = now])

\* 7. count confirmations and check threshold
ConfirmCount(p) ==
    /\ pc[p] = "c_count"
    /\ IF thresholdReached(totalConfirms(loc[p].record.id), loc[p].record)
         THEN EnterFinalize(p, loc[p].record)
         ELSE Return(p, loc[p].record,
                     showCause(loc[p].record, loc[p].user, loc[p].role))
    /\ UNCHANGED <<now, tables, tx, history>>
    /\ UNCHANGED <<notifyVars, dateVars, legacyVars, eventVars>>

\* ---------------------------------------------------- finalizeDeathRecord
FinalizeReturnAbortsJob(p, kind, row) ==
    IF loc[p].op = "sweep"
      THEN IF Len(loc[p].queue) > 1 /\ kind = "OK"
             THEN Goto(p, "f_cas", [loc[p] EXCEPT !.queue = Tail(@),
                                                  !.record = loc[p].queue[2],
                                                  !.fnow = now])
             ELSE Finish(p, kind, 0, "NONE")
      ELSE IF kind = "OK"
             THEN Return(p, row, showCause(loc[p].record, loc[p].user, loc[p].role))
             ELSE Finish(p, kind, loc[p].record.id, "NONE")

\* finalizeDeathRecord returns (kind "OK") or throws (kind "DB_ERROR") to its
\* caller: confirmDeath hands either to the route handler, the auto-confirm
\* job counts it and goes on with the next selected record
FinalizeReturn(p, kind, row) ==
    IF loc[p].op = "sweep"
      THEN IF Len(loc[p].queue) > 1
             THEN Goto(p, "f_cas", [loc[p] EXCEPT !.queue = Tail(@),
                                                  !.record = loc[p].queue[2],
                                                  !.fnow = now])
             ELSE Finish(p, "OK", 0, "NONE")
      ELSE IF kind = "OK"
             THEN Return(p, row, showCause(loc[p].record, loc[p].user, loc[p].role))
             ELSE Finish(p, kind, loc[p].record.id, "NONE")

casWhereAny(row) == TRUE

casWhereNotConfirmed(row) == row.status # "CONFIRMED"

\* WHERE id = ? AND status = 'PENDING'
casWhere(row) == row.status = "PENDING"

\* 1. atomically update only if still PENDING
FinalizeCas(p) ==
    /\ pc[p] = "f_cas"
    /\ LET d == loc[p].record.id
       IN /\ ~RecLockedByOther(p, d)
          /\ IF casWhere(deathRecords[d])
               THEN /\ tx' = [tx EXCEPT ![p] =
                          [NoTx EXCEPT !.active = TRUE, !.recId = d,
                                       !.confirmedAt = loc[p].fnow]]
                    /\ Goto(p, "f_rel", loc[p])
               ELSE /\ FinalizeReturn(p, "OK", loc[p].record)
                    /\ UNCHANGED tx
    /\ UNCHANGED <<now, tables, history>>
    /\ UNCHANGED <<notifyVars, dateVars, legacyVars, eventVars>>

relativeSetStatusOnly(record) ==
    [status |-> "DECEASED", deathYear |-> NULL, deathMonth |-> NULL, deathDay |-> NULL]

\* .set({ status: 'DECEASED', deathYear, deathMonth, deathDay }) of the record
relativeSet(record) ==
    [status |-> "DECEASED", deathYear |-> record.deathYear,
     deathMonth |-> record.deathMonth, deathDay |-> record.deathDay]

\* 2. update relative: mark as DECEASED with death date
FinalizeUpdateRelative(p) ==
    /\ pc[p] = "f_rel"
    /\ LET rec == loc[p].record
       IN /\ ~RelLockedByOther(p, rec.relativeId)
          /\ tx' = [tx EXCEPT ![p].relId = rec.relativeId,
                              ![p].relRow = relativeSet(rec)]
          /\ Goto(p, IF Len(generateCommemorationDates(rec.deathYear, rec.deathMonth,
                                                       rec.deathDay)) > 0
                       THEN "f_comm" ELSE "f_commit", loc[p])
    /\ UNCHANGED <<now, tables, history>>
    /\ UNCHANGED <<notifyVars, dateVars, legacyVars, eventVars>>

\* 3. generate and insert commemorations
FinalizeInsertCommemorations(p) ==
    /\ pc[p] = "f_comm"
    /\ LET rec == loc[p].record
           commDates == generateCommemorationDates(rec.deathYear, rec.deathMonth,
                                                   rec.deathDay)
       IN tx' = [tx EXCEPT ![p].comm =
                    [i \in 1..Len(commDates) |->
                        [relativeId |-> rec.relativeId, type |-> commDates[i].type,
                         commDate |-> commDates[i].commDate]]]
    /\ Goto(p, "f_commit", loc[p])
    /\ UNCHANGED <<now, tables, history>>
    /\ UNCHANGED <<notifyVars, dateVars, legacyVars, eventVars>>

\* the writes of transaction w that reach the tables when it commits
commitWrites(w) == w

rollbackKeepsWrites(w) == w

\* the writes of transaction w that reach the tables when it rolls back
rollbackWrites(w) == NoTx

\* the tables after the writes w are applied
ApplyWrites(w) ==
    /\ deathRecords' =
          IF w.recId # 0
            THEN [deathRecords EXCEPT ![w.recId].status = "CONFIRMED",
                                      ![w.recId].confirmedAt = w.confirmedAt]
            ELSE deathRecords
    /\ relatives' =
          IF w.relId # 0 THEN [relatives EXCEPT ![w.relId] = w.relRow] ELSE relatives
    /\ commemorations' = commemorations \o w.comm
    /\ UNCHANGED <<deathDateOf, members, deathConfirmations>>

\* history of the finalization effects that became visible for record d,
\* and of the finalizations of d that threw
Recorded(w, d, thrown) ==
    effects' = [effects EXCEPT
        ![d].confirmed = @ + (IF w.recId # 0 THEN 1 ELSE 0),
        ![d].relative  = @ + (IF w.relId # 0 THEN 1 ELSE 0),
        ![d].commSets  = @ + (IF w.comm # <<>> THEN 1 ELSE 0),
        ![d].failed    = @ + thrown]

\* COMMIT; return updated
FinalizeCommit(p) ==
    /\ pc[p] = "f_commit"
    /\ ApplyWrites(commitWrites(tx[p]))
    /\ Recorded(commitWrites(tx[p]), loc[p].record.id, 0)
    /\ tx' = [tx EXCEPT ![p] = NoTx]
    /\ FinalizeReturn(p, "OK",
          [id |-> loc[p].record.id] @@ deathRecords'[loc[p].record.id])
    /\ UNCHANGED <<now, calls, events>>
    /\ UNCHANGED <<notifyVars, dateVars, legacyVars, eventVars>>

\* the UPDATE of the relative or the INSERT of the commemorations fails:
\* the transaction callback throws, drizzle issues ROLLBACK and rethrows
FinalizeFail(p) ==
    /\ pc[p] \in {"f_rel", "f_comm"}
    /\ events < MaxEvents
    /\ events' = events + 1
    /\ ApplyWrites(rollbackWrites(tx[p]))
    /\ Recorded(rollbackWrites(tx[p]), loc[p].record.id, 1)
    /\ tx' = [tx EXCEPT ![p] = NoTx]
    /\ FinalizeReturn(p, "DB_ERROR", loc[p].record)
    /\ UNCHANGED <<now, calls>>
    /\ UNCHANGED <<notifyVars, dateVars, legacyVars, eventVars>>

\* ----------------------------------------------------- getTreeDeathRecords
\* verifyTreeAccess(.., 'viewer'), then every death record of the tree,
\* sanitized for the caller; the rows as a set (the response orders them by
\* created_at); the error kind when the caller has no access
getTreeDeathRecords(userId) ==
    IF verifyTreeAccess(userId, "viewer") # "OK"
      THEN verifyTreeAccess(userId, "viewer")
      ELSE {sanitizeDeathRecord(RowWithId(d),
                                showCause(RowWithId(d), userId, members[userId])) :
               d \in 1..Len(deathRecords)}

\* ------------------------------------------------ autoConfirmDeathRecords
sweepWhereBeforeNow(row) ==
    /\ row.status = "PENDING"
    /\ row.autoConfirmAt # NULL
    /\ row.autoConfirmAt < now

sweepWhereStatusOnly(row) == row.status = "PENDING"

\* SELECT * FROM death_records WHERE status = 'PENDING' AND auto_confirm_at <= NOW()
sweepWhere(row) ==
    /\ row.status = "PENDING"
    /\ row.autoConfirmAt # NULL
    /\ row.autoConfirmAt <= now

RECURSIVE SelectRows(_)
SelectRows(d) ==
    IF d > Len(deathRecords) THEN <<>>
    ELSE (IF sweepWhere(deathRecords[d]) THEN <<RowWithId(d)>> ELSE <<>>)
         \o SelectRows(d + 1)

AutoConfirmSelect ==
    /\ pc[SweepProc] = "idle"
    /\ LET pendingRecords == SelectRows(1)
       IN IF Len(pendingRecords) = 0
            THEN /\ pc' = pc
                 /\ loc' = loc
                 /\ result' = [NoResult EXCEPT !.kind = "OK", !.op = "sweep"]
            ELSE /\ pc' = [pc EXCEPT ![SweepProc] = "f_cas"]
                 /\ loc' = [loc EXCEPT ![SweepProc] =
                       [IdleLoc EXCEPT !.op = "sweep", !.queue = pendingRecords,
                                       !.record = pendingRecords[1], !.fnow = now]]
                 /\ UNCHANGED result
    /\ UNCHANGED <<now, tables, tx, history>>
    /\ UNCHANGED <<notifyVars, dateVars, legacyVars, eventVars>>

\* the SELECT of the job fails: the outer catch logs it and the job returns
AutoConfirmSelectFail ==
    /\ pc[SweepProc] = "idle"
    /\ result' = [NoResult EXCEPT !.kind = "OK", !.op = "sweep"]
    /\ UNCHANGED <<now, tables, pc, loc, tx, history>>
    /\ UNCHANGED <<notifyVars, dateVars, legacyVars, eventVars>>

\* ------------------------------------------------------------ environment
\* The membership of the tree changes at any moment.  What it was before the
\* first report counted the members is the choice of Init, so the model lets
\* it change from then on.
WorkflowStarted ==
    Len(deathRecords) > 0 \/ \E p \in ApiProcs : pc[p] \in {"r_count", "r_insert"}

\* The code reads the clock for autoConfirmAt (reportDeath), confirmedAt
\* (finalizeDeathRecord) and the job's auto_confirm_at <= NOW(); the model
\* lets time pass while a reported death waits for its deadline.
DeadlinePending ==
    \E d \in 1..Len(deathRecords) :
        /\ deathRecords[d].status = "PENDING"
        /\ deathRecords[d].autoConfirmAt # NULL
        /\ deathRecords[d].autoConfirmAt > now

Tick ==
    /\ DeadlinePending
    /\ now < MaxTime
    /\ now' = now + ClockStep
    /\ UNCHANGED <<tables, pc, loc, tx, result, history>>
    /\ UNCHANGED <<notifyVars, dateVars, legacyVars, eventVars>>

\* redeemLegacyKey: INSERT INTO tree_members (tree_id, user_id, role = 'editor');
\* the users outside the tree are interchangeable, the first of them joins
JoinTree(u) ==
    /\ WorkflowStarted
    /\ events < MaxEvents
    /\ members[u] = "none"
    /\ \A v \in Users : v < u => members[v] # "none"
    /\ members' = [members EXCEPT ![u] = "editor"]
    /\ events' = events + 1
    /\ UNCHANGED <<now, deathDateOf, relatives, deathRecords, deathConfirmations, commemorations,
                   pc, loc, tx, result, effects, calls>>
    /\ UNCHANGED <<notifyVars, dateVars, legacyVars, eventVars>>

\* deleteAccount: DELETE FROM tree_members WHERE user_id = ? (refused to tree owners)
LeaveTree(u) ==
    /\ WorkflowStarted
    /\ events < MaxEvents
    /\ members[u] \notin {"none", "owner"}
    /\ members' = [members EXCEPT ![u] = "none"]
    /\ events' = events + 1
    /\ UNCHANGED <<now, deathDateOf, relatives, deathRecords, deathConfirmations, commemorations,
                   pc, loc, tx, result, effects, calls>>
    /\ UNCHANGED <<notifyVars, dateVars, legacyVars, eventVars>>

\* ---------------------------------------------- generateEventsNotifications
\* Dates are days counted from the job's `today`; the job's range is
\* fromStr = today .. toStr = today + 7 days.
FromDay == 0
ToDay == FromDay + NotifyDays

\* what getTreeEvents(tree.id, fromStr, toStr) returns for a tree: nothing, a
\* marriage anniversary, the same anniversary twice (two spouse rows of the
\* same person A with the same month and day), an anniversary and a birthday
TreeEventLists(t) ==
    LET anniversary == [type |-> "MARRIAGE_ANNIVERSARY", relativeId |-> t,
                        date |-> FromDay]
        birthday    == [type |-> "BIRTHDAY", relativeId |-> t, date |-> ToDay]
    IN {<<>>, <<anniversary>>, <<anniversary, anniversary>>,
        <<birthday, anniversary>>}

TreeRows(t) ==
    [status : {"ACTIVE", "DORMANT"}, members : {{1}, {1, 2}},
     events : TreeEventLists(t)]

\* the sequence of the elements of a set of numbers, ascending
RECURSIVE SetToSeq(_)
SetToSeq(S) ==
    IF S = {} THEN <<>>
    ELSE LET m == CHOOSE x \in S : \A y \in S : x <= y
         IN <<m>> \o SetToSeq(S \ {m})

activeTreesAny == SetToSeq(Trees)

\* 1. SELECT id FROM family_trees WHERE status = 'ACTIVE'
activeTrees == SetToSeq({t \in Trees : trees[t].status = "ACTIVE"})

\* `${userId}|${type}|${relativeId ?? 'null'}|${eventDate}`: the ids are
\* uuids, the type is a word and the date is YYYY-MM-DD, none holds a "|",
\* so the string is the tuple of its four parts
notificationKey(userId, type, relativeId, eventDate) ==
    <<userId, type, relativeId, eventDate>>

existingNotifsNone(t) == <<>>

\* 4. SELECT ... FROM notifications WHERE tree_id = ? AND event_date BETWEEN ? AND ?
existingNotifs(t) ==
    SelectSeq(notifications,
              LAMBDA n : /\ n.treeId = t
                         /\ FromDay <= n.eventDate /\ n.eventDate <= ToDay)

existingKeys(rows) ==
    {notificationKey(rows[i].userId, rows[i].type, rows[i].relativeId,
                     rows[i].eventDate) : i \in 1..Len(rows)}

\* 5. for (const event of events) for (const member of members): a row for
\* every key that is not in existingKeys, the key marked as seen
RECURSIVE BuildBatch(_, _, _, _, _, _)
BuildBatch(t, evs, mems, i, j, seen) ==
    IF i > Len(evs) THEN <<>>
    ELSE IF j > Len(mems) THEN BuildBatch(t, evs, mems, i + 1, 1, seen)
    ELSE LET key == notificationKey(mems[j], evs[i].type, evs[i].relativeId,
                                    evs[i].date)
         IN IF key \in seen
              THEN BuildBatch(t, evs, mems, i, j + 1, seen)
              ELSE <<[userId |-> mems[j], treeId |-> t, type |-> evs[i].type,
                      relativeId |-> evs[i].relativeId, eventDate |-> evs[i].date]>>
                   \o BuildBatch(t, evs, mems, i, j + 1, seen \cup {key})

\* the failures of the database so far (counted by the job's log lines)
RECURSIVE NotifyFailures(_)
NotifyFailures(k) ==
    IF k = 0 THEN 0
    ELSE nloc[k].failedTrees + (IF nloc[k].error THEN 1 ELSE 0) + NotifyFailures(k - 1)

\* node-cron calls the job once a day: an invocation starts after the
\* previous one has returned
NotifyReady(k) ==
    /\ npc[k] = "ready"
    /\ IF k = 1 THEN TRUE ELSE npc[k - 1] = "done"

NotifyStart(k) ==
    /\ NotifyReady(k)
    /\ IF Len(activeTrees) = 0
         THEN /\ npc' = [npc EXCEPT ![k] = "done"]
              /\ UNCHANGED nloc
         ELSE /\ npc' = [npc EXCEPT ![k] = "n_events"]
              /\ nloc' = [nloc EXCEPT ![k].queue = activeTrees]
    /\ UNCHANGED <<deathVars, trees, notifications>>
    /\ UNCHANGED <<dateVars, legacyVars, eventVars>>

\* the SELECT of the trees fails: the outer catch logs it and the job returns
NotifyStartFail(k) ==
    /\ NotifyReady(k)
    /\ NotifyFailures(NumNotifyRuns) < MaxNotifyFailures
    /\ npc' = [npc EXCEPT ![k] = "done"]
    /\ nloc' = [nloc EXCEPT ![k].error = TRUE]
    /\ UNCHANGED <<deathVars, trees, notifications>>
    /\ UNCHANGED <<dateVars, legacyVars, eventVars>>

NotifyAbortRun(k, l) ==
    /\ npc' = [npc EXCEPT ![k] = "done"]
    /\ nloc' = [nloc EXCEPT ![k] = [l EXCEPT !.queue = <<>>, !.events = <<>>,
                                              !.members = <<>>, !.batch = <<>>,
                                              !.error = TRUE]]

\* the end of the loop body for a tree (`continue`, the end of the try block
\* or the end of the catch block): the next tree, or the end of the job
NotifyNextTree(k, l) ==
    /\ npc' = [npc EXCEPT ![k] = IF Len(l.queue) > 1 THEN "n_events" ELSE "done"]
    /\ nloc' = [nloc EXCEPT ![k] = [l EXCEPT !.queue = Tail(@), !.events = <<>>,
                                              !.members = <<>>, !.batch = <<>>]]

\* 2. const events = await getTreeEvents(tree.id, fromStr, toStr)
NotifyGetEvents(k) ==
    /\ npc[k] = "n_events"
    /\ LET evs == trees[Head(nloc[k].queue)].events
           l == [nloc[k] EXCEPT !.totalEvents = @ + Len(evs)]
       IN IF Len(evs) = 0
            THEN NotifyNextTree(k, l)
            ELSE /\ npc' = [npc EXCEPT ![k] = "n_members"]
                 /\ nloc' = [nloc EXCEPT ![k] = [l EXCEPT !.events = evs]]
    /\ UNCHANGED <<deathVars, trees, notifications>>
    /\ UNCHANGED <<dateVars, legacyVars, eventVars>>

\* 3. SELECT user_id FROM tree_members WHERE tree_id = ?
NotifyGetMembers(k) ==
    /\ npc[k] = "n_members"
    /\ npc' = [npc EXCEPT ![k] = "n_existing"]
    /\ nloc' = [nloc EXCEPT ![k].members = SetToSeq(trees[Head(nloc[k].queue)].members)]
    /\ UNCHANGED <<deathVars, trees, notifications>>
    /\ UNCHANGED <<dateVars, legacyVars, eventVars>>

\* 4. and 5. read the existing notifications, build the batch
NotifyGetExisting(k) ==
    /\ npc[k] = "n_existing"
    /\ LET t == Head(nloc[k].queue)
           newNotifications ==
               BuildBatch(t, nloc[k].events, nloc[k].members, 1, 1,
                          existingKeys(existingNotifs(t)))
       IN IF Len(newNotifications) > 0
            THEN /\ npc' = [npc EXCEPT ![k] = "n_insert"]
                 /\ nloc' = [nloc EXCEPT ![k].batch = newNotifications]
            ELSE NotifyNextTree(k, nloc[k])
    /\ UNCHANGED <<deathVars, trees, notifications>>
    /\ UNCHANGED <<dateVars, legacyVars, eventVars>>

\* 6. INSERT INTO notifications VALUES (...), (...)
NotifyInsert(k) ==
    /\ npc[k] = "n_insert"
    /\ notifications' = notifications \o nloc[k].batch
    /\ NotifyNextTree(k, [nloc[k] EXCEPT !.totalNotifications = @ + Len(nloc[k].batch)])
    /\ UNCHANGED <<deathVars, trees>>
    /\ UNCHANGED <<dateVars, legacyVars, eventVars>>

\* a statement of the loop body throws: the catch of the loop counts the
\* tree as failed and logs its id
NotifyTreeFail(k) ==
    /\ npc[k] \in {"n_events", "n_members", "n_existing", "n_insert"}
    /\ NotifyFailures(NumNotifyRuns) < MaxNotifyFailures
    /\ NotifyNextTree(k, [nloc[k] EXCEPT !.failedTrees = @ + 1,
                                         !.failedTreeIds = @ \cup {Head(nloc[k].queue)}])
    /\ UNCHANGED <<deathVars, trees, notifications>>
    /\ UNCHANGED <<dateVars, legacyVars, eventVars>>

\* ------------------------------------------------------------ legacy keys
\* the email of the authenticated user (req.user.email): one address per user
Email(u) == u

\* A request is served by a free handler; the handlers are interchangeable
FreeLegacyHandler(p) ==
    /\ lpc[p] = "idle"
    /\ \A q \in LegacyProcs : q < p => lpc[q] # "idle"

\* the row of the key is locked by the open transaction of another call
KeyLockedByOther(p, k) == \E q \in LegacyProcs \ {p} : ltx[q].key = k

\* another open transaction has inserted the tree_members row of the user
\* (the unique index tree_members_tree_user_idx makes the insert wait)
MemberInsertedByOther(p, u) == \E q \in LegacyProcs \ {p} : ltx[q].member = u

\* the call of process p returns (kind "OK") or throws
LegacyFinish(p, l, kind) ==
    /\ lpc' = [lpc EXCEPT ![p] = "idle"]
    /\ lloc' = [lloc EXCEPT ![p] = IdleLegacy]
    /\ louts' = louts \cup {[op |-> l.op, user |-> l.user, key |-> l.key, kind |-> kind]}

redeemWhereAny(row) == TRUE

\* WHERE key_code = ? AND status = 'ACTIVE'
redeemWhere(row) == row.status = "ACTIVE"

\* .set({ status: 'USED', usedBy: userId, usedAt: new Date() })
redeemSet(row, userId) == [row EXCEPT !.status = "USED", !.usedBy = userId, !.usedAt = now]

\* .set({ status: 'ACTIVE', usedBy: null, usedAt: null })
revertSet(row) == [row EXCEPT !.status = "ACTIVE", !.usedBy = NULL, !.usedAt = NULL]

\* redeemLegacyKey(userId, userEmail, keyCode): db.transaction(..), BEGIN
RedeemBegin(p, userId, keyCode) ==
    /\ FreeLegacyHandler(p)
    /\ lcalls < MaxLegacyCalls
    /\ lcalls' = lcalls + 1
    /\ lpc' = [lpc EXCEPT ![p] = "r_update"]
    /\ lloc' = [lloc EXCEPT ![p] = [IdleLegacy EXCEPT !.op = "redeem", !.user = userId,
                                                     !.key = keyCode]]
    /\ UNCHANGED <<lkeys, lmembers, ltx, louts, redeems>>
    /\ UNCHANGED <<deathVars, notifyVars, dateVars, eventVars>>

\* the UPDATE of the key (it waits for the row lock and then reads the
\* committed row), notFound when it returns no row, the check of
\* recipientEmail
RedeemUpdate(p) ==
    /\ lpc[p] = "r_update"
    /\ LET l == lloc[p]
       IN IF l.key \notin Keys
            THEN /\ LegacyFinish(p, l, "NOT_FOUND")
                 /\ UNCHANGED ltx
            ELSE /\ ~KeyLockedByOther(p, l.key)
                 /\ IF ~redeemWhere(lkeys[l.key])
                      THEN /\ LegacyFinish(p, l, "NOT_FOUND")
                           /\ UNCHANGED ltx
                      ELSE LET key == redeemSet(lkeys[l.key], l.user)
                           IN /\ ltx' = [ltx EXCEPT ![p] = [key |-> l.key, row |-> key,
                                                           member |-> 0]]
                              /\ IF key.recipientEmail # NULL
                                    /\ key.recipientEmail # Email(l.user)
                                   THEN /\ lpc' = [lpc EXCEPT ![p] = "r_revert"]
                                        /\ lloc' = [lloc EXCEPT ![p] =
                                               [l EXCEPT !.row = key, !.error = "FORBIDDEN"]]
                                   ELSE /\ lpc' = [lpc EXCEPT ![p] = "r_member"]
                                        /\ lloc' = [lloc EXCEPT ![p] = [l EXCEPT !.row = key]]
                              /\ UNCHANGED louts
    /\ UNCHANGED <<lkeys, lmembers, redeems, lcalls>>
    /\ UNCHANGED <<deathVars, notifyVars, dateVars, eventVars>>

\* SELECT user_id FROM tree_members WHERE tree_id = ? AND user_id = ?
RedeemSelectMember(p) ==
    /\ lpc[p] = "r_member"
    /\ IF lmembers[lloc[p].user] # "none"
         THEN /\ lpc' = [lpc EXCEPT ![p] = "r_revert"]
              /\ lloc' = [lloc EXCEPT ![p].error = "CONFLICT"]
         ELSE /\ lpc' = [lpc EXCEPT ![p] = "r_insert"]
              /\ UNCHANGED lloc
    /\ UNCHANGED <<lkeys, lmembers, ltx, louts, redeems, lcalls>>
    /\ UNCHANGED <<deathVars, notifyVars, dateVars, eventVars>>

\* the UPDATE that sets the key back to ACTIVE, in the transaction
RedeemRevert(p) ==
    /\ lpc[p] = "r_revert"
    /\ ltx' = [ltx EXCEPT ![p].row = revertSet(@)]
    /\ lpc' = [lpc EXCEPT ![p] = "r_rollback"]
    /\ UNCHANGED <<lkeys, lmembers, lloc, louts, redeems, lcalls>>
    /\ UNCHANGED <<deathVars, notifyVars, dateVars, eventVars>>

\* throw forbidden(..) / conflict(..): the transaction callback throws,
\* drizzle issues ROLLBACK and rethrows
RedeemRollback(p) ==
    /\ lpc[p] = "r_rollback"
    /\ ltx' = [ltx EXCEPT ![p] = NoLegacyTx]
    /\ LegacyFinish(p, lloc[p], lloc[p].error)
    /\ UNCHANGED <<lkeys, lmembers, redeems, lcalls>>
    /\ UNCHANGED <<deathVars, notifyVars, dateVars, eventVars>>

\* INSERT INTO tree_members (tree_id, user_id, role) VALUES (?, ?, 'editor'):
\* a committed row of the user violates the unique index, the insert throws
\* and the transaction is rolled back
RedeemInsertMember(p) ==
    /\ lpc[p] = "r_insert"
    /\ ~MemberInsertedByOther(p, lloc[p].user)
    /\ IF lmembers[lloc[p].user] # "none"
         THEN /\ ltx' = [ltx EXCEPT ![p] = NoLegacyTx]
              /\ LegacyFinish(p, lloc[p], "DB_ERROR")
         ELSE /\ ltx' = [ltx EXCEPT ![p].member = lloc[p].user]
              /\ lpc' = [lpc EXCEPT ![p] = "r_commit"]
              /\ UNCHANGED <<lloc, louts>>
    /\ UNCHANGED <<lkeys, lmembers, redeems, lcalls>>
    /\ UNCHANGED <<deathVars, notifyVars, dateVars, eventVars>>

\* return key; COMMIT
RedeemCommit(p) ==
    /\ lpc[p] = "r_commit"
    /\ lkeys' = [lkeys EXCEPT ![ltx[p].key] = ltx[p].row]
    /\ lmembers' = [lmembers EXCEPT ![ltx[p].member] = "editor"]
    /\ redeems' = [redeems EXCEPT ![ltx[p].key] = @ + 1]
    /\ ltx' = [ltx EXCEPT ![p] = NoLegacyTx]
    /\ lpc' = [lpc EXCEPT ![p] = "r_tree"]
    /\ UNCHANGED <<lloc, louts, lcalls>>
    /\ UNCHANGED <<deathVars, notifyVars, dateVars, eventVars>>

\* SELECT * FROM family_trees WHERE id = ?; return { tree, key }
RedeemFetchTree(p) ==
    /\ lpc[p] = "r_tree"
    /\ LegacyFinish(p, lloc[p], "OK")
    /\ UNCHANGED <<lkeys, lmembers, ltx, redeems, lcalls>>
    /\ UNCHANGED <<deathVars, notifyVars, dateVars, eventVars>>

\* revokeLegacyKey(keyId, userId): the SELECT of the key and the checks
RevokeSelect(p, userId, keyId) ==
    /\ FreeLegacyHandler(p)
    /\ lcalls < MaxLegacyCalls
    /\ lcalls' = lcalls + 1
    /\ LET l == [IdleLegacy EXCEPT !.op = "revoke", !.user = userId, !.key = keyId]
       IN IF keyId \notin Keys
            THEN LegacyFinish(p, l, "NOT_FOUND")
            ELSE IF lkeys[keyId].createdBy # userId
            THEN LegacyFinish(p, l, "FORBIDDEN")
            ELSE IF lkeys[keyId].status # "ACTIVE"
            THEN LegacyFinish(p, l, "BAD_REQUEST")
            ELSE /\ lpc' = [lpc EXCEPT ![p] = "v_update"]
                 /\ lloc' = [lloc EXCEPT ![p] = [l EXCEPT !.row = lkeys[keyId]]]
                 /\ UNCHANGED louts
    /\ UNCHANGED <<lkeys, lmembers, ltx, redeems>>
    /\ UNCHANGED <<deathVars, notifyVars, dateVars, eventVars>>

\* WHERE id = ?
revokeWhere(row) == TRUE

\* UPDATE legacy_keys SET status = 'REVOKED' WHERE id = ?
RevokeUpdate(p) ==
    /\ lpc[p] = "v_update"
    /\ ~KeyLockedByOther(p, lloc[p].key)
    /\ lkeys' = IF revokeWhere(lkeys[lloc[p].key])
                  THEN [lkeys EXCEPT ![lloc[p].key].status = "REVOKED"]
                  ELSE lkeys
    /\ LegacyFinish(p, lloc[p], "OK")
    /\ UNCHANGED <<lmembers, ltx, redeems, lcalls>>
    /\ UNCHANGED <<deathVars, notifyVars, dateVars, eventVars>>

\* ---------------------------------------------------------- getTreeEvents
\* the range of the call: from = 28 February, to = from + NumEventDays - 1
EventsFrom == [y |-> EventsYear, m |-> 2, d |-> 28]
EventsTo == SetDate(EventsFrom, EventsFrom.d + NumEventDays - 1)

\* forEachDateInRange(from, to, callback): the dates the callback is called with
RECURSIVE forEachDateInRange(_, _)
forEachDateInRange(current, to) ==
    IF DayNumber(current) > DayNumber(to) THEN <<>>
    ELSE <<current>> \o forEachDateInRange(SetDate(current, current.d + 1), to)

\* `${String(month).padStart(2, '0')}-${String(day).padStart(2, '0')}`
monthDayKey(month, day) == Pad2(month) \o <<"-">> \o Pad2(day)

\* [...a, ...b, ...]
RECURSIVE Concat(_)
Concat(ss) == IF Len(ss) = 0 THEN <<>> ELSE Head(ss) \o Concat(Tail(ss))

\* SELECT ... FROM relatives WHERE tree_id = ?
treeRelatives == [i \in 1..NumEventRelatives |-> [id |-> i] @@ evRelatives[i]]

\* SELECT ... FROM commemorations JOIN relatives ... WHERE comm_date BETWEEN ? AND ?
treeComms(from, to) ==
    SelectSeq(evComms,
              LAMBDA c : /\ DayNumber(from) <= DayNumber(parseISODate(c.commDate))
                         /\ DayNumber(parseISODate(c.commDate)) <= DayNumber(to))

LIVING_STATUSES == {"ALIVE", "UNKNOWN"}

livingRelativesAll(rels) == rels

\* treeRelatives.filter((r) => LIVING_STATUSES.has(r.status))
livingRelatives(rels) == SelectSeq(rels, LAMBDA r : r.status \in LIVING_STATUSES)

deceasedRelativesAll(rels) == rels

\* treeRelatives.filter((r) => r.status === 'DECEASED')
deceasedRelatives(rels) == SelectSeq(rels, LAMBDA r : r.status = "DECEASED")

computeBirthdays(living, dates) ==
    LET withDate == SelectSeq(living, LAMBDA r : r.birthMonth # NULL /\ r.birthDay # NULL)
        onDate(date) ==
            LET matches == SelectSeq(withDate,
                               LAMBDA r : monthDayKey(r.birthMonth, r.birthDay)
                                            = monthDayKey(date.m, date.d))
            IN [i \in 1..Len(matches) |->
                   [type |-> "BIRTHDAY", date |-> toISODate(date),
                    relativeId |-> matches[i].id]]
    IN Concat([i \in 1..Len(dates) |-> onDate(dates[i])])

\* the name day index of bg-name-days has the names of every day; a
\* relative's row says on which day (nameMonth, nameDay) a part of the name
\* is celebrated, if on any: one NAME_DAY event per relative per date
computeNameDays(living, dates) ==
    LET onDate(date) ==
            LET matches == SelectSeq(living,
                               LAMBDA r : /\ r.nameMonth = date.m
                                          /\ r.nameDay = date.d)
            IN [i \in 1..Len(matches) |->
                   [type |-> "NAME_DAY", date |-> toISODate(date),
                    relativeId |-> matches[i].id]]
    IN Concat([i \in 1..Len(dates) |-> onDate(dates[i])])

COMM_TYPE_MAP(type) ==
    CASE type = "DEATH_40_DAYS" -> "COMMEMORATION_40"
      [] type = "DEATH_6_MONTHS" -> "COMMEMORATION_6M"
      [] type = "DEATH_1_YEAR" -> "COMMEMORATION_1Y"
      [] type = "DEATH_ANNIVERSARY" -> "COMMEMORATION_ANNUAL"
      [] OTHER -> type

computeCommemorations(commRows) ==
    [i \in 1..Len(commRows) |->
        [type |-> COMM_TYPE_MAP(commRows[i].type), date |-> commRows[i].commDate,
         relativeId |-> commRows[i].relativeId]]

computeAnniversaries(spouseRelationships, dates) ==
    LET eligible == SelectSeq(spouseRelationships,
                        LAMBDA r : /\ r.marriageMonth # NULL
                                   /\ r.marriageDay # NULL
                                   /\ r.divorceYear = NULL)
        onDate(date) ==
            LET matches == SelectSeq(eligible,
                               LAMBDA r : /\ monthDayKey(r.marriageMonth, r.marriageDay)
                                               = monthDayKey(date.m, date.d)
                                          /\ r.personAId \in EventRelatives
                                          /\ r.personBId \in EventRelatives)
            IN [i \in 1..Len(matches) |->
                   [type |-> "MARRIAGE_ANNIVERSARY", date |-> toISODate(date),
                    relativeId |-> matches[i].personAId]]
    IN Concat([i \in 1..Len(dates) |-> onDate(dates[i])])

computeOnThisDay(deceased, dates) ==
    LET withDeathDate == SelectSeq(deceased,
                             LAMBDA r : r.deathMonth # NULL /\ r.deathDay # NULL)
        onDate(date) ==
            LET matches == SelectSeq(withDeathDate,
                               LAMBDA r : monthDayKey(r.deathMonth, r.deathDay)
                                            = monthDayKey(date.m, date.d))
            IN [i \in 1..Len(matches) |->
                   [type |-> "ON_THIS_DAY", date |-> toISODate(date),
                    relativeId |-> matches[i].id]]
    IN Concat([i \in 1..Len(dates) |-> onDate(dates[i])])

TYPE_PRIORITY(type) ==
    CASE type = "BIRTHDAY" -> 0
      [] type = "NAME_DAY" -> 1
      [] type \in {"COMMEMORATION_40", "COMMEMORATION_6M", "COMMEMORATION_1Y",
                   "COMMEMORATION_ANNUAL"} -> 2
      [] type = "MARRIAGE_ANNIVERSARY" -> 3
      [] type = "ON_THIS_DAY" -> 4
      [] OTHER -> 99

\* the rank of a character of a YYYY-MM-DD string in the collation
CharRank(c) == IF c = "-" THEN 0 ELSE DigitValue(c) + 1

\* a.localeCompare(b) for strings of digits and hyphens
RECURSIVE localeCompare(_, _)
localeCompare(a, b) ==
    IF Len(a) = 0 /\ Len(b) = 0 THEN 0
    ELSE IF Len(a) = 0 THEN -1
    ELSE IF Len(b) = 0 THEN 1
    ELSE IF CharRank(Head(a)) < CharRank(Head(b)) THEN -1
    ELSE IF CharRank(Head(a)) > CharRank(Head(b)) THEN 1
    ELSE localeCompare(Tail(a), Tail(b))

compareEventsByType(a, b) == TYPE_PRIORITY(a.type) - TYPE_PRIORITY(b.type)

\* the comparator of events.sort
compareEvents(a, b) ==
    LET dateCompare == localeCompare(a.date, b.date)
    IN IF dateCompare # 0 THEN dateCompare
       ELSE TYPE_PRIORITY(a.type) - TYPE_PRIORITY(b.type)

\* Array.prototype.sort is stable: an element goes behind the elements that
\* do not compare greater
RECURSIVE InsertEvent(_, _)
InsertEvent(sorted, x) ==
    IF Len(sorted) = 0 THEN <<x>>
    ELSE IF compareEvents(Head(sorted), x) <= 0
           THEN <<Head(sorted)>> \o InsertEvent(Tail(sorted), x)
           ELSE <<x>> \o sorted

RECURSIVE sortEvents(_)
sortEvents(evs) ==
    IF Len(evs) = 0 THEN <<>>
    ELSE InsertEvent(sortEvents(SubSeq(evs, 1, Len(evs) - 1)), evs[Len(evs)])

\* the events array before events.sort
computedEvents(from, to) ==
    LET dates == forEachDateInRange(from, to)
    IN computeBirthdays(livingRelatives(treeRelatives), dates)
       \o computeNameDays(livingRelatives(treeRelatives), dates)
       \o computeCommemorations(treeComms(from, to))
       \o computeAnniversaries(evSpouses, dates)
       \o computeOnThisDay(deceasedRelatives(treeRelatives), dates)

getTreeEvents(from, to) == sortEvents(computedEvents(from, to))

\* a call getTreeEvents(treeId, fromStr, toStr)
Project ==
    /\ epc = "call"
    /\ evReturned' = getTreeEvents(EventsFrom, EventsTo)
    /\ epc' = "returned"
    /\ UNCHANGED <<evRelatives, evSpouses, evComms>>
    /\ UNCHANGED <<deathVars, notifyVars, dateVars, legacyVars>>

\* ---------------------------------------------------------- specification
Next ==
    \/ \E p \in ApiProcs, u \in Users, r \in 1..(NumRelatives + 1) :
          ReportSelectRelative(p, u, r)
    \/ \E p \in ApiProcs : ReportVerifyAccess(p)
    \/ \E p \in ApiProcs : ReportCheckPending(p)
    \/ \E p \in ApiProcs : ReportCountMembers(p)
    \/ \E p \in ApiProcs : ReportInsert(p)
    \/ \E p \in ApiProcs, u \in Users, d \in 1..(MaxRecords + 1), c \in BOOLEAN :
          ConfirmSelectRecord(p, u, d, c)
    \/ \E p \in ApiProcs : ConfirmVerifyAccess(p)
    \/ \E p \in ApiProcs : ConfirmInsert(p)
    \/ \E p \in ApiProcs : ConfirmDispute(p)
    \/ \E p \in ApiProcs : ConfirmCount(p)
    \/ \E p \in Procs : FinalizeCas(p)
    \/ \E p \in Procs : FinalizeUpdateRelative(p)
    \/ \E p \in Procs : FinalizeInsertCommemorations(p)
    \/ \E p \in Procs : FinalizeCommit(p)
    \/ \E p \in Procs : FinalizeFail(p)
    \/ AutoConfirmSelect
    \/ AutoConfirmSelectFail
    \/ Tick
    \/ \E u \in Users : JoinTree(u)
    \/ \E u \in Users : LeaveTree(u)

Spec == Init /\ [][Next]_vars

\* a statement of finalizeDeathRecord that process p has reached and that
\* waits for no row lock is executed
FinalizeStep(p) ==
    \/ FinalizeCas(p)
    \/ FinalizeUpdateRelative(p)
    \/ FinalizeInsertCommemorations(p)
    \/ FinalizeCommit(p)

\* node-cron fires the auto-confirm job every hour and its SELECT succeeds
\* in the end, the clock advances, and the event loop resumes every pending
\* finalizeDeathRecord
Fairness ==
    /\ WF_vars(AutoConfirmSelect)
    /\ WF_vars(Tick)
    /\ \A p \in Procs : WF_vars(FinalizeStep(p))

\* the tree of a lone reporter: the owner and nobody else when the first
\* report arrives
LiveInit ==
    /\ Init
    /\ \A u \in Users : members[u] # "none" <=> u = 1

\* the lone reporter's tree stays as it is: the reports, the job, the clock
\* and the failures of the database
LiveNext ==
    \/ \E p \in ApiProcs, u \in Users, r \in 1..(NumRelatives + 1) :
          ReportSelectRelative(p, u, r)
    \/ \E p \in ApiProcs : ReportVerifyAccess(p)
    \/ \E p \in ApiProcs : ReportCheckPending(p)
    \/ \E p \in ApiProcs : ReportCountMembers(p)
    \/ \E p \in ApiProcs : ReportInsert(p)
    \/ FinalizeCas(SweepProc)
    \/ FinalizeUpdateRelative(SweepProc)
    \/ FinalizeInsertCommemorations(SweepProc)
    \/ FinalizeCommit(SweepProc)
    \/ FinalizeFail(SweepProc)
    \/ AutoConfirmSelect
    \/ AutoConfirmSelectFail
    \/ Tick

LiveSpec == LiveInit /\ [][LiveNext]_vars /\ Fairness

\* the notification job on its own: the trees, their members and their
\* events are the choice of the initial state, the death workflow is at rest
NotifyInit ==
    /\ trees \in {f \in [Trees -> UNION {TreeRows(t) : t \in Trees}] :
                      \A t \in Trees : f[t] \in TreeRows(t)}
    /\ notifications = <<>>
    /\ npc = [k \in NotifyRuns |-> "ready"]
    /\ nloc = [k \in NotifyRuns |-> IdleNotify]
    /\ DateQuiet
    /\ LegacyQuiet
    /\ EventQuiet
    /\ now = 0
    /\ deathDateOf = (CHOOSE f \in [Relatives -> ReportDates] : TRUE)
    /\ members = (CHOOSE m \in InitMembers : TRUE)
    /\ relatives = [r \in Relatives |-> NoRelative]
    /\ deathRecords = <<>>
    /\ deathConfirmations = <<>>
    /\ commemorations = <<>>
    /\ pc = [p \in Procs |-> "idle"]
    /\ loc = [p \in Procs |-> IdleLoc]
    /\ tx = [p \in Procs |-> NoTx]
    /\ result = NoResult
    /\ effects = [d \in 1..MaxRecords |-> NoEffects]
    /\ calls = 0
    /\ events = 0

NotifyNext ==
    \/ \E k \in NotifyRuns : NotifyStart(k)
    \/ \E k \in NotifyRuns : NotifyStartFail(k)
    \/ \E k \in NotifyRuns : NotifyGetEvents(k)
    \/ \E k \in NotifyRuns : NotifyGetMembers(k)
    \/ \E k \in NotifyRuns : NotifyGetExisting(k)
    \/ \E k \in NotifyRuns : NotifyInsert(k)
    \/ \E k \in NotifyRuns : NotifyTreeFail(k)

NotifySpec == NotifyInit /\ [][NotifyNext]_vars

\* startScheduler() is called by every server process after it listens, each
\* with its own cron at 06:00: with more than one process on the database the
\* invocations of a day start together, none waits for another
NotifyStartOverlapping(k) ==
    /\ npc[k] = "ready"
    /\ IF Len(activeTrees) = 0
         THEN /\ npc' = [npc EXCEPT ![k] = "done"]
              /\ UNCHANGED nloc
         ELSE /\ npc' = [npc EXCEPT ![k] = "n_events"]
              /\ nloc' = [nloc EXCEPT ![k].queue = activeTrees]
    /\ UNCHANGED <<deathVars, trees, notifications>>
    /\ UNCHANGED <<dateVars, legacyVars, eventVars>>

OverlapNext ==
    \/ \E k \in NotifyRuns : NotifyStartOverlapping(k)
    \/ \E k \in NotifyRuns : NotifyGetEvents(k)
    \/ \E k \in NotifyRuns : NotifyGetMembers(k)
    \/ \E k \in NotifyRuns : NotifyGetExisting(k)
    \/ \E k \in NotifyRuns : NotifyInsert(k)

OverlapSpec == NotifyInit /\ [][OverlapNext]_vars

\* the death workflow at rest
WorkflowQuiet ==
    /\ now = 0
    /\ deathDateOf = (CHOOSE f \in [Relatives -> ReportDates] : TRUE)
    /\ members = (CHOOSE m \in InitMembers : TRUE)
    /\ relatives = [r \in Relatives |-> NoRelative]
    /\ deathRecords = <<>>
    /\ deathConfirmations = <<>>
    /\ commemorations = <<>>
    /\ pc = [p \in Procs |-> "idle"]
    /\ loc = [p \in Procs |-> IdleLoc]
    /\ tx = [p \in Procs |-> NoTx]
    /\ result = NoResult
    /\ effects = [d \in 1..MaxRecords |-> NoEffects]
    /\ calls = 0
    /\ events = 0

\* the legacy keys on their own: ACTIVE keys of the owner, with or without a
\* recipient email, and calls of redeemLegacyKey and revokeLegacyKey
LegacyInit ==
    /\ lkeys \in [Keys -> {NewKey(a) : a \in {NULL} \cup {Email(u) : u \in Users \ {KeyCreator}}}]
    /\ lmembers = InitLegacyMembers
    /\ lpc = [p \in LegacyProcs |-> "idle"]
    /\ lloc = [p \in LegacyProcs |-> IdleLegacy]
    /\ ltx = [p \in LegacyProcs |-> NoLegacyTx]
    /\ louts = {}
    /\ redeems = [k \in Keys |-> 0]
    /\ lcalls = 0
    /\ WorkflowQuiet
    /\ NotifyQuiet
    /\ DateQuiet
    /\ EventQuiet

LegacyNext ==
    \/ \E p \in LegacyProcs, u \in Users, k \in 1..(NumKeys + 1) : RedeemBegin(p, u, k)
    \/ \E p \in LegacyProcs : RedeemUpdate(p)
    \/ \E p \in LegacyProcs : RedeemSelectMember(p)
    \/ \E p \in LegacyProcs : RedeemRevert(p)
    \/ \E p \in LegacyProcs : RedeemRollback(p)
    \/ \E p \in LegacyProcs : RedeemInsertMember(p)
    \/ \E p \in LegacyProcs : RedeemCommit(p)
    \/ \E p \in LegacyProcs : RedeemFetchTree(p)
    \/ \E p \in LegacyProcs, u \in Users, k \in 1..(NumKeys + 1) : RevokeSelect(p, u, k)
    \/ \E p \in LegacyProcs : RevokeUpdate(p)

LegacySpec == LegacyInit /\ [][LegacyNext]_vars

\* getTreeEvents on its own: the rows of the tree are the choice of the
\* initial state.  A relative is ALIVE, UNKNOWN or DECEASED, has no birthday,
\* one on 29 February or one on 1 March, no death date, a death month alone
\* or a death on 28 February, and a name day on 28 February or none.
EventRelativeRows ==
    {[status |-> st, birthMonth |-> b[1], birthDay |-> b[2],
      deathMonth |-> d[1], deathDay |-> d[2], nameMonth |-> n[1], nameDay |-> n[2]] :
        st \in {"ALIVE", "UNKNOWN", "DECEASED"},
        b \in {<<NULL, NULL>>, <<2, 29>>, <<3, 1>>},
        d \in {<<NULL, NULL>>, <<2, NULL>>, <<2, 28>>},
        n \in {<<NULL, NULL>>, <<2, 28>>}}

\* the commemorations table: empty, a row in the range, a row after the
\* range, or rows before, in and after the range with two on one day
EventCommRows ==
    LET row(r, type, date) == [relativeId |-> r, type |-> type, commDate |-> toISODate(date)]
        first == CHOOSE r \in EventRelatives : \A q \in EventRelatives : r <= q
    IN {<<>>,
        <<row(first, "DEATH_40_DAYS", EventsTo)>>,
        <<row(first, "DEATH_6_MONTHS", SetDate(EventsTo, EventsTo.d + 1))>>,
        <<row(first, "DEATH_ANNIVERSARY", EventsTo),
          row(first, "DEATH_40_DAYS", SetDate(EventsFrom, EventsFrom.d - 1)),
          row(first, "DEATH_1_YEAR", EventsTo),
          row(first, "DEATH_6_MONTHS", EventsFrom)>>}

\* the spouse relationships: none, a marriage on the first day of the range,
\* the same marriage divorced
EventSpouseRows ==
    LET row(divorceYear) ==
            [personAId |-> 1, personBId |-> NumEventRelatives,
             marriageMonth |-> EventsFrom.m, marriageDay |-> EventsFrom.d,
             divorceYear |-> divorceYear]
    IN {<<>>, <<row(NULL)>>, <<row(EventsYear)>>}

EventInit ==
    /\ evRelatives \in [EventRelatives -> EventRelativeRows]
    /\ evSpouses \in EventSpouseRows
    /\ evComms \in EventCommRows
    /\ evReturned = <<>>
    /\ epc = "call"
    /\ WorkflowQuiet
    /\ NotifyQuiet
    /\ DateQuiet
    /\ LegacyQuiet

EventNext == Project

EventSpec == EventInit /\ [][EventNext]_vars

\* ------------------------------------------ generateCommemorationDates alone
DeathYears == FirstDeathYear..(FirstDeathYear + NumDeathYears - 1)

\* the death dates reportDeathSchema lets through: a year, a year and a
\* month, or a day that exists in its month (refineDateValidity)
DeathDates ==
    {[deathYear |-> y, deathMonth |-> NULL, deathDay |-> NULL] : y \in DeathYears}
    \cup {[deathYear |-> y, deathMonth |-> m, deathDay |-> NULL] :
              y \in DeathYears, m \in 1..12}
    \cup {dt \in [deathYear : DeathYears, deathMonth : 1..12, deathDay : 1..31] :
              dt.deathDay <= DaysInMonth(dt.deathYear, dt.deathMonth)}

DateInit ==
    /\ deathDate \in DeathDates
    /\ returned = <<>>
    /\ dpc = "call"
    /\ NotifyQuiet
    /\ LegacyQuiet
    /\ EventQuiet
    /\ now = 0
    /\ deathDateOf = (CHOOSE f \in [Relatives -> ReportDates] : TRUE)
    /\ members = (CHOOSE m \in InitMembers : TRUE)
    /\ relatives = [r \in Relatives |-> NoRelative]
    /\ deathRecords = <<>>
    /\ deathConfirmations = <<>>
    /\ commemorations = <<>>
    /\ pc = [p \in Procs |-> "idle"]
    /\ loc = [p \in Procs |-> IdleLoc]
    /\ tx = [p \in Procs |-> NoTx]
    /\ result = NoResult
    /\ effects = [d \in 1..MaxRecords |-> NoEffects]
    /\ calls = 0
    /\ events = 0

\* generateCommemorationDates(deathYear, deathMonth, deathDay)
Derive ==
    /\ dpc = "call"
    /\ returned' = generateCommemorationDates(deathDate.deathYear, deathDate.deathMonth,
                                              deathDate.deathDay)
    /\ dpc' = "returned"
    /\ UNCHANGED <<deathDate, deathVars, notifyVars, legacyVars, eventVars>>

DateNext == Derive

DateSpec == DateInit /\ [][DateNext]_vars

\* ================================================================== claims
RecordIds == 1..Len(deathRecords)

HasFullDate(row) == row.deathMonth # NULL /\ row.deathDay # NULL

\* process p takes the step
Steps(p) == pc'[p] # pc[p] \/ loc'[p] # loc[p] \/ tx'[p] # tx[p]

\* C1: however often finalizeDeathRecord runs on a record, the record makes
\* at most one PENDING -> CONFIRMED transition, every such transition comes
\* with exactly one update of the relative and one set of commemorations
\* (none for a partial date), and a CONFIRMED record has made exactly one.
C1_IdempotentFinalize ==
    \A d \in RecordIds :
        /\ effects[d].confirmed <= 1
        /\ effects[d].relative = effects[d].confirmed
        /\ effects[d].commSets =
              (IF HasFullDate(deathRecords[d]) THEN effects[d].confirmed ELSE 0)
        /\ deathRecords[d].status = "CONFIRMED" => effects[d].confirmed = 1

\* a confirmDeath that reached the threshold and called finalizeDeathRecord
\* was handed back its own PENDING row: another finalization had won
C1_Witness ==
    /\ result.kind = "OK" /\ result.op = "confirm" /\ result.status = "PENDING"
    /\ result.recId \in RecordIds
    /\ totalConfirms(result.recId) >= deathRecords[result.recId].confirmationsNeeded
    /\ deathRecords[result.recId].status = "CONFIRMED"
    /\ effects[result.recId].confirmed = 1
    /\ HasFullDate(deathRecords[result.recId])

\* C2: every relative has at most one PENDING death record.
C2_AtMostOnePending ==
    \A r \in Relatives :
        Cardinality({d \in RecordIds : /\ deathRecords[d].relativeId = r
                                       /\ deathRecords[d].status = "PENDING"}) <= 1

\* C3: no step changes the status of a CONFIRMED or DISPUTED record.
C3_TerminalStatus ==
    [][\A d \in RecordIds :
          deathRecords[d].status \in {"CONFIRMED", "DISPUTED"}
              => deathRecords'[d].status = deathRecords[d].status]_vars

\* C4: the UPDATE of a dispute leaves the record DISPUTED whatever its
\* confirmationsNeeded and its confirmations; a DISPUTED record stays
\* DISPUTED; a confirmDeath call that reads a DISPUTED record is rejected and
\* changes no table.
C4_DisputeShortCircuits ==
    [][/\ \A p \in ApiProcs :
             (pc[p] = "c_dispute" /\ Steps(p))
                 => /\ deathRecords'[loc[p].record.id].status = "DISPUTED"
                    /\ result'.kind = "OK"
       /\ \A d \in RecordIds :
             deathRecords[d].status = "DISPUTED" => deathRecords'[d].status = "DISPUTED"
       /\ \A p \in ApiProcs :
             (pc[p] = "c_access" /\ loc[p].record.status = "DISPUTED" /\ Steps(p))
                 => /\ pc'[p] = "idle"
                    /\ result'.kind \in {"BAD_REQUEST", "FORBIDDEN"}
                    /\ deathConfirmations' = deathConfirmations
                    /\ deathRecords' = deathRecords]_vars

\* a member's call on a record that two confirmations would have confirmed
\* and one dispute has DISPUTED was rejected
C4_Witness ==
    /\ result.kind = "BAD_REQUEST" /\ result.op = "confirm"
    /\ result.recId \in RecordIds
    /\ deathRecords[result.recId].status = "DISPUTED"
    /\ deathRecords[result.recId].confirmationsNeeded = 2
    /\ deathRecords[result.recId].reportedBy # result.user
    /\ members[result.user] # "none"
    /\ effects[result.recId].confirmed = 0
    /\ Len(deathConfirmations) = 1

\* C5: a transaction of finalizeDeathRecord that fails after its CAS leaves
\* the tables as they were, the record PENDING with no confirmedAt; and the
\* step that makes a record CONFIRMED also makes its relative DECEASED with
\* the record's date and adds the record's commemorations.
C5_AllOrNothing ==
    [][/\ \A p \in Procs :
             (pc[p] \in {"f_rel", "f_comm"} /\ tx[p].active /\ ~tx'[p].active)
                 => /\ deathRecords'[tx[p].recId].status = "PENDING"
                    /\ deathRecords'[tx[p].recId].confirmedAt = NULL
                    /\ deathRecords' = deathRecords
                    /\ relatives' = relatives
                    /\ commemorations' = commemorations
                    /\ (loc[p].op = "confirm" => result'.kind = "DB_ERROR")
       /\ \A d \in RecordIds :
             (deathRecords[d].status # "CONFIRMED" /\ deathRecords'[d].status = "CONFIRMED")
                 => LET row == deathRecords[d]
                    IN /\ relatives'[row.relativeId] =
                             [status |-> "DECEASED", deathYear |-> row.deathYear,
                              deathMonth |-> row.deathMonth, deathDay |-> row.deathDay]
                       /\ Len(commemorations') = Len(commemorations)
                             + Len(generateCommemorationDates(row.deathYear,
                                       row.deathMonth, row.deathDay))]_vars

\* a confirmDeath failed inside the transaction, after the CAS: the record is
\* PENDING, the relative alive, no commemoration
C5_Witness ==
    /\ result.kind = "DB_ERROR" /\ result.op = "confirm"
    /\ deathRecords[result.recId].status = "PENDING"
    /\ deathRecords[result.recId].confirmedAt = NULL
    /\ relatives[deathRecords[result.recId].relativeId].status = "ALIVE"
    /\ commemorations = <<>>
    /\ events = 1

\* C6: the CAS of finalizeDeathRecord on a record that is not PENDING opens
\* no write, changes no table and raises no error.
C6_NoOpFinalize ==
    [][\A p \in Procs :
          (pc[p] = "f_cas" /\ Steps(p)
               /\ deathRecords[loc[p].record.id].status # "PENDING")
              => /\ tx' = tx
                 /\ deathRecords' = deathRecords
                 /\ relatives' = relatives
                 /\ commemorations' = commemorations
                 /\ (loc[p].op = "confirm" => pc'[p] = "idle" /\ result'.kind = "OK")]_vars

\* a confirmDeath reached the threshold of a record that had been DISPUTED
\* meanwhile: its finalizeDeathRecord returned with nothing done
C6_Witness ==
    /\ result.kind = "OK" /\ result.op = "confirm" /\ result.status = "PENDING"
    /\ result.recId \in RecordIds
    /\ totalConfirms(result.recId) >= deathRecords[result.recId].confirmationsNeeded
    /\ deathRecords[result.recId].status = "DISPUTED"
    /\ deathRecords[result.recId].confirmedAt = NULL
    /\ effects[result.recId] = NoEffects
    /\ relatives[deathRecords[result.recId].relativeId].status = "ALIVE"

\* C7: no two death_confirmations rows have the same (deathRecordId, userId);
\* an insert for a pair that has a row fails with Conflict and adds nothing.
C7_OneResponsePerUser ==
    /\ [](\A i, j \in 1..Len(deathConfirmations) :
             (/\ deathConfirmations[i].deathRecordId = deathConfirmations[j].deathRecordId
              /\ deathConfirmations[i].userId = deathConfirmations[j].userId) => i = j)
    /\ [][\A p \in ApiProcs :
             (/\ pc[p] = "c_insert" /\ Steps(p)
              /\ \E i \in 1..Len(deathConfirmations) :
                    /\ deathConfirmations[i].deathRecordId = loc[p].record.id
                    /\ deathConfirmations[i].userId = loc[p].user)
                 => /\ result'.kind = "CONFLICT"
                    /\ pc'[p] = "idle"
                    /\ deathConfirmations' = deathConfirmations]_vars

\* a member who had confirmed a record answered it again while it was PENDING
C7_Witness ==
    /\ result.kind = "CONFLICT" /\ result.op = "confirm"
    /\ deathRecords[result.recId].status = "PENDING"
    /\ Cardinality({i \in 1..Len(deathConfirmations) :
          /\ deathConfirmations[i].deathRecordId = result.recId
          /\ deathConfirmations[i].userId = result.user}) = 1
    /\ totalConfirms(result.recId) = 1

\* C8: no death_confirmations row is the reporter's; a confirmDeath call of
\* the reporter is rejected at the checks and changes no table.
C8_NoSelfConfirmation ==
    /\ [](\A i \in 1..Len(deathConfirmations) :
             deathConfirmations[i].userId #
                 deathRecords[deathConfirmations[i].deathRecordId].reportedBy)
    /\ [][\A p \in ApiProcs :
             (/\ pc[p] = "c_access" /\ Steps(p)
              /\ loc[p].user = deathRecords[loc[p].record.id].reportedBy)
                 => /\ pc'[p] = "idle"
                    /\ result'.kind \in {"BAD_REQUEST", "FORBIDDEN"}
                    /\ deathRecords' = deathRecords
                    /\ deathConfirmations' = deathConfirmations]_vars

\* the reporter, still owner of the tree, answered the own PENDING record
C8_Witness ==
    /\ result.op = "confirm" /\ result.kind = "BAD_REQUEST"
    /\ result.recId \in RecordIds
    /\ deathRecords[result.recId].reportedBy = result.user
    /\ deathRecords[result.recId].status = "PENDING"
    /\ members[result.user] = "owner"

\* C9: the member count of reportDeath fixes confirmationsNeeded to 0, 1 or 2
\* for 0, 1 or at least 2 members other than the reporter, and autoConfirmAt
\* to the clock + 48 hours for 0 and to NULL otherwise; the inserted row
\* carries these values, so autoConfirmAt is set iff confirmationsNeeded = 0.
C9_QuorumSizing ==
    /\ [][\A p \in ApiProcs :
             (pc[p] = "r_count" /\ Steps(p))
                 => LET n == Cardinality({u \in Users \ {loc[p].user} :
                                              members[u] \in {"viewer", "editor", "owner"}})
                    IN /\ n = 0 => /\ loc'[p].confirmationsNeeded = 0
                                   /\ loc'[p].autoConfirmAt = now + 48
                       /\ n = 1 => /\ loc'[p].confirmationsNeeded = 1
                                   /\ loc'[p].autoConfirmAt = NULL
                       /\ n >= 2 => /\ loc'[p].confirmationsNeeded = 2
                                    /\ loc'[p].autoConfirmAt = NULL]_vars
    /\ [][\A p \in ApiProcs :
             (pc[p] = "r_insert" /\ Steps(p))
                 => /\ Len(deathRecords') = Len(deathRecords) + 1
                    /\ deathRecords'[Len(deathRecords')].confirmationsNeeded =
                          loc[p].confirmationsNeeded
                    /\ deathRecords'[Len(deathRecords')].autoConfirmAt =
                          loc[p].autoConfirmAt]_vars
    /\ [](\A d \in RecordIds :
             /\ deathRecords[d].confirmationsNeeded \in {0, 1, 2}
             /\ deathRecords[d].autoConfirmAt # NULL
                   <=> deathRecords[d].confirmationsNeeded = 0)

\* the owner alone in the tree reported a death
C9_Witness ==
    \E d \in RecordIds :
        /\ deathRecords[d].confirmationsNeeded = 0
        /\ deathRecords[d].autoConfirmAt = 48
        /\ deathRecords[d].createdAt = 0
        /\ deathRecords[d].reportedBy = 1

\* C10: no step changes the confirmationsNeeded or the autoConfirmAt of a
\* stored record, and the row a running confirmDeath compares its count with
\* carries the stored confirmationsNeeded.
C10_QuorumFixed ==
    /\ [][\A d \in RecordIds :
             /\ deathRecords'[d].confirmationsNeeded = deathRecords[d].confirmationsNeeded
             /\ deathRecords'[d].autoConfirmAt = deathRecords[d].autoConfirmAt]_vars
    /\ [](\A p \in Procs :
             loc[p].op \in {"confirm", "sweep"}
                 => /\ loc[p].record.confirmationsNeeded =
                          deathRecords[loc[p].record.id].confirmationsNeeded
                    /\ loc[p].record.autoConfirmAt =
                          deathRecords[loc[p].record.id].autoConfirmAt)

\* a record was disputed after the membership of its tree had changed: the
\* member count no longer yields its confirmationsNeeded
C10_Witness ==
    \E d \in RecordIds :
        /\ deathRecords[d].status = "DISPUTED"
        /\ events = 1
        /\ confirmationsNeededFor(otherMembers(deathRecords[d].reportedBy))
              # deathRecords[d].confirmationsNeeded

\* the records of relative r that have status st
RecordsOf(r, st) ==
    {d \in RecordIds : deathRecords[d].relativeId = r /\ deathRecords[d].status = st}

\* an editor or the owner of the tree
EditorOrAbove(u) == members[u] \in {"editor", "owner"}

C12_ReportRejections ==
    /\ [][\A p \in ApiProcs :
             /\ (calls' = calls + 1 /\ result'.op = "report" /\ result' # result
                    /\ result'.relId \notin Relatives)
                   => /\ result'.kind = "NOT_FOUND"
                      /\ pc' = pc
             /\ (pc[p] = "idle" /\ pc'[p] = "r_access")
                   => loc'[p].relativeId \in Relatives
             /\ (pc[p] = "r_access" /\ Steps(p) /\ ~EditorOrAbove(loc[p].user))
                   => pc'[p] = "idle" /\ result'.kind = "FORBIDDEN"
             /\ (pc[p] = "r_access" /\ Steps(p) /\ EditorOrAbove(loc[p].user)
                    /\ loc[p].relative.status = "DECEASED")
                   => pc'[p] = "idle" /\ result'.kind = "BAD_REQUEST"
             /\ (pc[p] = "r_pending" /\ Steps(p)
                    /\ RecordsOf(loc[p].relativeId, "PENDING") # {})
                   => pc'[p] = "idle" /\ result'.kind = "CONFLICT"]_vars
    /\ [][(result' # result /\ result'.op = "report" /\ result'.kind # "OK")
             => /\ result'.kind \in {"NOT_FOUND", "FORBIDDEN", "BAD_REQUEST", "CONFLICT"}
                /\ UNCHANGED <<members, relatives, deathRecords, deathConfirmations,
                               commemorations, tx, effects>>]_vars

\* a viewer of the tree reported a death and was refused; nothing was recorded
C12_Witness ==
    /\ result.kind = "FORBIDDEN" /\ result.op = "report"
    /\ members[result.user] = "viewer"
    /\ result.relId \in Relatives
    /\ relatives[result.relId].status = "ALIVE"
    /\ deathRecords = <<>>

\* the records the auto-confirm job is due to finalize
DueRecords ==
    {d \in RecordIds : /\ deathRecords[d].status = "PENDING"
                       /\ deathRecords[d].confirmationsNeeded = 0
                       /\ deathRecords[d].autoConfirmAt # NULL
                       /\ deathRecords[d].autoConfirmAt <= now}

\* the ids of the rows in a sequence of selected rows
IdsOf(rows) == {rows[i].id : i \in 1..Len(rows)}

\* C13: a run of the auto-confirm job selects exactly the records that are
\* PENDING with confirmationsNeeded = 0 and autoConfirmAt <= now, whatever
\* their confirmations, and a run that starts while there are such records
\* takes them up; a record leaves the job's hands after its CAS or its
\* commit no longer PENDING, CONFIRMED after the commit; and no step of the
\* job changes a record whose autoConfirmAt is in the future or its
\* finalization effects.
C13_SweepFinalizesDue ==
    /\ [][(pc[SweepProc] = "idle" /\ pc'[SweepProc] # "idle")
             => /\ IdsOf(loc'[SweepProc].queue) = DueRecords
                /\ Len(loc'[SweepProc].queue) = Cardinality(DueRecords)
                /\ pc'[SweepProc] = "f_cas"]_vars
    /\ []((pc[SweepProc] = "idle" /\ DueRecords # {})
             => ENABLED (AutoConfirmSelect /\ pc'[SweepProc] = "f_cas"))
    /\ [][(pc[SweepProc] \in {"f_cas", "f_commit"}
              /\ loc'[SweepProc].queue # loc[SweepProc].queue)
             => /\ deathRecords'[loc[SweepProc].record.id].status # "PENDING"
                /\ pc[SweepProc] = "f_commit"
                      => deathRecords'[loc[SweepProc].record.id].status = "CONFIRMED"]_vars
    /\ [][\A d \in RecordIds :
             (/\ Steps(SweepProc)
              /\ deathRecords[d].autoConfirmAt # NULL
              /\ deathRecords[d].autoConfirmAt > now)
                 => /\ deathRecords'[d] = deathRecords[d]
                    /\ effects'[d] = effects[d]]_vars

\* the job confirmed a record that nobody had answered
C13_Witness ==
    /\ result.op = "sweep" /\ result.kind = "OK"
    /\ \E d \in RecordIds :
          /\ deathRecords[d].status = "CONFIRMED"
          /\ deathRecords[d].confirmationsNeeded = 0
          /\ deathRecords[d].confirmedAt >= deathRecords[d].autoConfirmAt
          /\ relatives[deathRecords[d].relativeId].status = "DECEASED"
          /\ totalConfirms(d) = 0
    /\ deathConfirmations = <<>>

\* C14: every record the auto-confirm job has selected was read PENDING and
\* has confirmationsNeeded = 0 and an autoConfirmAt that is not in the
\* future, and the record in the job's transaction has confirmationsNeeded
\* = 0: the job finalizes no record that needs 1 or 2 confirmations.
C14_SweepOnlyDue ==
    /\ \A i \in 1..Len(loc[SweepProc].queue) :
          LET row == loc[SweepProc].queue[i]
          IN /\ row.status = "PENDING"
             /\ row.confirmationsNeeded = 0
             /\ deathRecords[row.id].confirmationsNeeded = 0
             /\ row.autoConfirmAt # NULL
             /\ row.autoConfirmAt <= now
    /\ pc[SweepProc] # "idle"
          => loc[SweepProc].record = loc[SweepProc].queue[1]
    /\ tx[SweepProc].active
          => /\ deathRecords[tx[SweepProc].recId].confirmationsNeeded = 0
             /\ deathRecords[tx[SweepProc].recId].autoConfirmAt <= now
             /\ deathRecords[tx[SweepProc].recId].status = "PENDING"

\* the job has confirmed a lone reporter's record after its deadline while a
\* record of the same age that needs a confirmation is still PENDING
C14_Witness ==
    \E d1, d2 \in RecordIds :
        /\ deathRecords[d1].status = "CONFIRMED"
        /\ deathRecords[d1].confirmationsNeeded = 0
        /\ deathConfirmations = <<>>
        /\ deathRecords[d2].status = "PENDING"
        /\ deathRecords[d2].confirmationsNeeded >= 1
        /\ deathRecords[d2].createdAt < deathRecords[d1].confirmedAt
        /\ pc[SweepProc] = "idle" /\ result.op = "sweep"

\* the commemoration types of a full death date, in the order of insertion
CommemorationTypes ==
    <<"DEATH_40_DAYS", "DEATH_6_MONTHS", "DEATH_1_YEAR", "DEATH_ANNIVERSARY">>

\* death dates without a day, year-only and year+month
PartialDates ==
    {[deathYear |-> y, deathMonth |-> m, deathDay |-> NULL] :
        y \in {2023, 2024}, m \in {NULL} \cup 1..12}

\* C15: the commemorations table changes only at the commit of a
\* finalization whose CAS took its record from PENDING, and that commit adds
\* the four rows DEATH_40_DAYS, DEATH_6_MONTHS, DEATH_1_YEAR and
\* DEATH_ANNIVERSARY of the record's relative; a record with a partial date
\* becomes CONFIRMED and its relative DECEASED with no row added; and no
\* commemoration date is derived from a year-only or year+month date.
C15_CommemorationRows ==
    /\ [][commemorations' # commemorations
             => \E p \in Procs :
                   LET d == tx[p].recId
                   IN /\ pc[p] = "f_commit" /\ tx[p].active /\ d \in RecordIds
                      /\ deathRecords[d].status = "PENDING"
                      /\ deathRecords'[d].status = "CONFIRMED"
                      /\ HasFullDate(deathRecords[d])
                      /\ Len(commemorations') = Len(commemorations) + 4
                      /\ \A i \in 1..Len(commemorations) :
                            commemorations'[i] = commemorations[i]
                      /\ \A i \in 1..4 :
                            LET row == commemorations'[Len(commemorations) + i]
                            IN /\ row.type = CommemorationTypes[i]
                               /\ row.relativeId = deathRecords[d].relativeId]_vars
    /\ [][\A d \in RecordIds :
             (deathRecords[d].status # "CONFIRMED" /\ deathRecords'[d].status = "CONFIRMED")
                 => /\ relatives'[deathRecords[d].relativeId].status = "DECEASED"
                    /\ Len(commemorations') = Len(commemorations)
                          + (IF HasFullDate(deathRecords[d]) THEN 4 ELSE 0)]_vars
    /\ [](\A date \in PartialDates :
             generateCommemorationDates(date.deathYear, date.deathMonth,
                                        date.deathDay) = <<>>)

\* a record with a year-only date was finalized: CONFIRMED, the relative
\* DECEASED, no commemoration
C15_Witness ==
    \E d \in RecordIds :
        /\ deathRecords[d].status = "CONFIRMED"
        /\ ~HasFullDate(deathRecords[d])
        /\ relatives[deathRecords[d].relativeId].status = "DECEASED"
        /\ effects[d].confirmed = 1
        /\ commemorations = <<>>

\* C18: a confirmDeath call of the reporter of a PENDING record, a member of
\* the tree, is rejected with Forbidden.
C18_ReporterForbidden ==
    [][\A p \in ApiProcs :
          (/\ pc[p] = "c_access" /\ Steps(p)
           /\ members[loc[p].user] # "none"
           /\ loc[p].record.status = "PENDING"
           /\ loc[p].record.reportedBy = loc[p].user)
              => result'.kind = "FORBIDDEN"]_vars

\* C19: when a finalization of the auto-confirm job fails, the job goes on
\* with the next record it selected, or ends its run without an error when
\* there is none; every record the job leaves is followed by the next
\* selected one; no run of the job ends with an error; and whenever the job
\* is idle its next run can start.
C19_SweepIsolation ==
    /\ [][(pc[SweepProc] \in {"f_rel", "f_comm"}
              /\ tx[SweepProc].active /\ ~tx'[SweepProc].active)
             => IF Len(loc[SweepProc].queue) > 1
                  THEN /\ pc'[SweepProc] = "f_cas"
                       /\ loc'[SweepProc].record = loc[SweepProc].queue[2]
                  ELSE /\ pc'[SweepProc] = "idle"
                       /\ result'.op = "sweep" /\ result'.kind = "OK"]_vars
    /\ [][(pc[SweepProc] # "idle" /\ loc'[SweepProc].queue # loc[SweepProc].queue)
             => IF Len(loc[SweepProc].queue) > 1
                  THEN /\ loc'[SweepProc].queue = Tail(loc[SweepProc].queue)
                       /\ loc'[SweepProc].record = loc[SweepProc].queue[2]
                       /\ pc'[SweepProc] = "f_cas"
                  ELSE pc'[SweepProc] = "idle"]_vars
    /\ [](result.op = "sweep" => result.kind = "OK")
    /\ [](pc[SweepProc] = "idle" => ENABLED AutoConfirmSelect)

\* the job selected two records of a lone reporter, the finalization of
\* the first failed and the second was confirmed in the same run
C19_Witness ==
    /\ pc[SweepProc] = "idle" /\ result.op = "sweep" /\ result.kind = "OK"
    /\ events = 1
    /\ \A u \in Users : members[u] # "none" => u = 1
    /\ Len(deathRecords) = 2
    /\ deathRecords[1].status = "PENDING" /\ deathRecords[1].autoConfirmAt <= now
    /\ deathRecords[1].autoConfirmAt # NULL
    /\ deathRecords[2].status = "CONFIRMED" /\ deathRecords[2].confirmationsNeeded = 0
    /\ effects[1] = [NoEffects EXCEPT !.failed = 1]

\* the returned record carries a causeOfDeath field
HasCause(record) == "causeOfDeath" \in DOMAIN record

\* C17: a death record returned by reportDeath or confirmDeath, and every
\* record returned by getTreeDeathRecords to a member, carries the
\* causeOfDeath field, with the stored value, if the caller is its reporter
\* or the owner of the tree, and no causeOfDeath field otherwise.
C17_CauseVisibility ==
    /\ (result.kind = "OK" /\ result.op \in {"report", "confirm"})
          => /\ result.record.id = result.recId
             /\ HasCause(result.record)
                   <=> (\/ deathRecords[result.recId].reportedBy = result.user
                        \/ members[result.user] = "owner")
             /\ HasCause(result.record)
                   => result.record.causeOfDeath = deathRecords[result.recId].causeOfDeath
    /\ \A u \in Users :
          members[u] # "none"
              => /\ Cardinality(getTreeDeathRecords(u)) = Len(deathRecords)
                 /\ \A row \in getTreeDeathRecords(u) :
                       /\ HasCause(row)
                             <=> (deathRecords[row.id].reportedBy = u
                                     \/ members[u] = "owner")
                       /\ HasCause(row)
                             => row.causeOfDeath = deathRecords[row.id].causeOfDeath

\* an editor confirmed a record with a stored cause of death that the owner
\* had reported: the response and the editor's list leave the cause out, the
\* owner's list shows it
C17_Witness ==
    /\ result.kind = "OK" /\ result.op = "confirm"
    /\ members[result.user] = "editor"
    /\ deathRecords[result.recId].reportedBy # result.user
    /\ deathRecords[result.recId].causeOfDeath = "illness"
    /\ ~HasCause(result.record)
    /\ \A row \in getTreeDeathRecords(result.user) : ~HasCause(row)
    /\ \E row \in getTreeDeathRecords(1) : row.causeOfDeath = "illness"

\* the rows of the notifications table with a key
RowsWithKey(key) ==
    {i \in 1..Len(notifications) :
        notificationKey(notifications[i].userId, notifications[i].type,
                        notifications[i].relativeId, notifications[i].eventDate) = key}

\* an invocation of the job that has returned and has logged no failure
CleanRun(k) ==
    /\ npc[k] = "done"
    /\ ~nloc[k].error
    /\ nloc[k].failedTrees = 0

\* every member of the tree has a notification of every event of the tree
Complete(t) ==
    \A i \in 1..Len(trees[t].events) : \A u \in trees[t].members :
        LET ev == trees[t].events[i]
        IN RowsWithKey(notificationKey(u, ev.type, ev.relativeId, ev.date)) # {}

\* C16: invocations of the notification job one after the other over the same
\* trees, members and events leave at most one row for a (userId, type,
\* relativeId, eventDate): after an invocation without failure every member of
\* an ACTIVE tree has exactly one row for every event of the tree, also for an
\* event the tree yields twice, and the invocation after it never reaches its
\* INSERT and counts zero new notifications.
C16_NotificationDedup ==
    /\ \A i \in 1..Len(notifications) :
           Cardinality(RowsWithKey(notificationKey(
               notifications[i].userId, notifications[i].type,
               notifications[i].relativeId, notifications[i].eventDate))) = 1
    /\ \A k \in NotifyRuns : CleanRun(k) =>
           \A t \in Trees : trees[t].status = "ACTIVE" =>
               \A i \in 1..Len(trees[t].events) : \A u \in trees[t].members :
                   LET ev == trees[t].events[i]
                   IN Cardinality(RowsWithKey(
                          notificationKey(u, ev.type, ev.relativeId, ev.date))) = 1
    /\ \A k \in NotifyRuns : (k > 1 /\ CleanRun(k - 1)) =>
           /\ npc[k] # "n_insert"
           /\ nloc[k].totalNotifications = 0

C16_Witness ==
    /\ CleanRun(1)
    /\ CleanRun(2)
    /\ nloc[1].totalNotifications = Len(notifications)
    /\ nloc[2].totalNotifications = 0
    /\ nloc[2].totalEvents > 0
    /\ \E t \in Trees :
           /\ trees[t].status = "ACTIVE"
           /\ Cardinality(trees[t].members) = 2
           /\ Len(trees[t].events) = 2
           /\ trees[t].events[1] = trees[t].events[2]
           /\ Cardinality({i \in 1..Len(notifications) :
                               notifications[i].treeId = t}) = 2

\* C20: a failure of a statement of the loop body for a tree ends the work on
\* that tree only: the job counts the tree as failed and goes on with the next
\* ACTIVE tree, or returns when it was the last, and the failure does not reach
\* the outer catch.  When the job has returned, at most failedTrees ACTIVE
\* trees lack a notification of theirs.
C20_TreeFailureIsolated ==
    /\ [][\A k \in NotifyRuns :
            (nloc'[k].failedTrees # nloc[k].failedTrees) =>
                /\ npc[k] \in {"n_events", "n_members", "n_existing", "n_insert"}
                /\ nloc'[k].failedTrees = nloc[k].failedTrees + 1
                /\ nloc'[k].queue = Tail(nloc[k].queue)
                /\ npc'[k] = IF nloc'[k].queue # <<>> THEN "n_events" ELSE "done"
                /\ nloc'[k].error = nloc[k].error
                /\ notifications' = notifications]_vars
    /\ [](\A k \in NotifyRuns :
            /\ nloc[k].error => nloc[k].failedTrees = 0 /\ nloc[k].totalEvents = 0
            /\ (npc[k] = "done" /\ ~nloc[k].error) =>
                   Cardinality({t \in Trees : /\ trees[t].status = "ACTIVE"
                                              /\ ~Complete(t)})
                       <= nloc[k].failedTrees)

C20_Witness ==
    /\ npc[1] = "done"
    /\ ~nloc[1].error
    /\ nloc[1].failedTrees = 1
    /\ npc[2] = "ready"
    /\ \E t1, t2 \in Trees :
           /\ t1 < t2
           /\ trees[t1].status = "ACTIVE" /\ trees[t2].status = "ACTIVE"
           /\ trees[t1].events # <<>> /\ trees[t2].events # <<>>
           /\ ~Complete(t1)
           /\ Complete(t2)
           /\ \E i \in 1..Len(notifications) : notifications[i].treeId = t2

IsISODate(str) ==
    /\ Len(str) = 10
    /\ str[5] = "-" /\ str[8] = "-"
    /\ \A i \in {1, 2, 3, 4, 6, 7, 9, 10} : \E n \in 0..9 : DigitChars[n + 1] = str[i]

\* the dates the returned array gives for a type
ReturnedDates(type) ==
    {parseISODate(returned[i].commDate) :
        i \in {j \in 1..Len(returned) : returned[j].type = type}}

FullDateDerived ==
    /\ dpc = "returned"
    /\ deathDate.deathMonth # NULL
    /\ deathDate.deathDay # NULL

\* the calendar date `months` months after a date: the same day of the
\* month, or the last day of the target month when the month is shorter
MonthShift(dt, months) ==
    LET index == (dt.deathMonth - 1) + months
        ty == dt.deathYear + (index \div 12)
        tm == (index % 12) + 1
        last == IF tm = 2 THEN (IF (ty % 4 = 0 /\ ty % 100 # 0) \/ ty % 400 = 0
                                  THEN 29 ELSE 28)
                ELSE IF tm \in {4, 6, 9, 11} THEN 30 ELSE 31
    IN [y |-> ty, m |-> tm, d |-> IF dt.deathDay <= last THEN dt.deathDay ELSE last]

\* C21: for a full death date the DEATH_6_MONTHS and the DEATH_1_YEAR date
\* are the death date 6 and 12 calendar months later: the month and year of
\* the shift, the day of the death date when the target month has it and the
\* last day of the target month otherwise, never a day of the month after.
C21_MonthShiftCapped ==
    FullDateDerived =>
        /\ ReturnedDates("DEATH_6_MONTHS") = {MonthShift(deathDate, 6)}
        /\ ReturnedDates("DEATH_1_YEAR") = {MonthShift(deathDate, 12)}

\* 31 August 2023 gives 29 February 2024, 29 February 2024 gives 28 February 2025
C21_Witness ==
    /\ FullDateDerived
    /\ \/ /\ deathDate = [deathYear |-> 2023, deathMonth |-> 8, deathDay |-> 31]
          /\ ReturnedDates("DEATH_6_MONTHS") = {[y |-> 2024, m |-> 2, d |-> 29]}
       \/ /\ deathDate = [deathYear |-> 2024, deathMonth |-> 2, deathDay |-> 29]
          /\ ReturnedDates("DEATH_1_YEAR") = {[y |-> 2025, m |-> 2, d |-> 28]}

IsCalendarDate(date) ==
    /\ date.m \in 1..12
    /\ date.d >= 1
    /\ DayNumber(date) < DayNumber(IF date.m = 12
                                     THEN [y |-> date.y + 1, m |-> 1, d |-> 1]
                                     ELSE [y |-> date.y, m |-> date.m + 1, d |-> 1])

\* C22: for a full death date generateCommemorationDates returns four
\* entries, one of each type, every date a YYYY-MM-DD string of a calendar
\* date; the DEATH_40_DAYS date is the 40th day after the death date and the
\* DEATH_ANNIVERSARY date is the DEATH_1_YEAR date.  The dates are given as
\* functions of the year, the month and the day alone.
C22_FortyDaysAndAnniversary ==
    FullDateDerived =>
        /\ Len(returned) = 4
        /\ \A k \in 1..Len(CommemorationTypes) :
               Cardinality({i \in 1..Len(returned) :
                               returned[i].type = CommemorationTypes[k]}) = 1
        /\ \A i \in 1..Len(returned) :
               /\ IsISODate(returned[i].commDate)
               /\ IsCalendarDate(parseISODate(returned[i].commDate))
        /\ \A date \in ReturnedDates("DEATH_40_DAYS") :
               DayNumber(date) =
                   DayNumber([y |-> deathDate.deathYear, m |-> deathDate.deathMonth,
                              d |-> deathDate.deathDay]) + 40
        /\ ReturnedDates("DEATH_ANNIVERSARY") = ReturnedDates("DEATH_1_YEAR")

\* 31 January 2024 gives 11 March 2024 (over the leap day), 25 November 2024
\* gives 4 January 2025 (over the end of the year)
C22_Witness ==
    /\ FullDateDerived
    /\ \/ /\ deathDate = [deathYear |-> 2024, deathMonth |-> 1, deathDay |-> 31]
          /\ ReturnedDates("DEATH_40_DAYS") = {[y |-> 2024, m |-> 3, d |-> 11]}
          /\ ReturnedDates("DEATH_ANNIVERSARY") = {[y |-> 2025, m |-> 1, d |-> 31]}
       \/ /\ deathDate = [deathYear |-> 2024, deathMonth |-> 11, deathDay |-> 25]
          /\ ReturnedDates("DEATH_40_DAYS") = {[y |-> 2025, m |-> 1, d |-> 4]}

\* process p returns a record from a confirmDeath call with confirmed = true
ConfirmReturns(p) ==
    /\ loc[p].op = "confirm"
    /\ loc[p].confirmed
    /\ pc[p] # "idle"
    /\ pc'[p] = "idle"
    /\ result'.kind = "OK"

\* C23: a confirmDeath call with confirmed = true that returns a record which
\* nobody changed since the call read it (as when no other operation runs
\* between its first and its last statement) leaves the record CONFIRMED and
\* returns it CONFIRMED when the confirmed = true rows of the record, the
\* caller's among them, are at least confirmationsNeeded; otherwise its last
\* step changes no record, no relative and no commemoration and the record is
\* PENDING, in the table and in the response.
C23_ConfirmBelowAndAtThreshold ==
    [][\A p \in ApiProcs :
          (ConfirmReturns(p) /\ RowWithId(loc[p].record.id) = loc[p].record) =>
              LET d == loc[p].record.id
              IN /\ \E i \in 1..Len(deathConfirmations) :
                        deathConfirmations[i] =
                            [deathRecordId |-> d, userId |-> loc[p].user,
                             confirmed |-> TRUE]
                 /\ IF totalConfirms(d) >= deathRecords[d].confirmationsNeeded
                      THEN /\ deathRecords'[d].status = "CONFIRMED"
                           /\ result'.status = "CONFIRMED"
                           /\ relatives'[deathRecords[d].relativeId].status = "DECEASED"
                      ELSE /\ deathRecords' = deathRecords
                           /\ relatives' = relatives
                           /\ commemorations' = commemorations
                           /\ deathRecords'[d].status = "PENDING"
                           /\ result'.status = "PENDING"]_vars

\* of two members needed, the second to confirm was returned the record
\* CONFIRMED; the first had been returned it PENDING
C23_Witness ==
    /\ \A p \in ApiProcs : pc[p] = "idle"
    /\ result.kind = "OK" /\ result.op = "confirm" /\ result.status = "CONFIRMED"
    /\ result.recId \in RecordIds
    /\ deathRecords[result.recId].confirmationsNeeded = 2
    /\ totalConfirms(result.recId) = 2
    /\ Len(deathConfirmations) = 2
    /\ deathRecords[result.recId].status = "CONFIRMED"
    /\ relatives[deathRecords[result.recId].relativeId].status = "DECEASED"
    /\ calls = 3

\* every call of the API has returned or thrown
Quiescent == \A p \in ApiProcs : pc[p] = "idle"

Disputes(d) ==
    {i \in 1..Len(deathConfirmations) :
        /\ deathConfirmations[i].deathRecordId = d
        /\ ~deathConfirmations[i].confirmed}

C25_LoneReportConfirmed ==
    \A d \in 1..MaxRecords :
        (d \in RecordIds /\ deathRecords[d].status = "PENDING"
                         /\ deathRecords[d].confirmationsNeeded = 0
                         /\ deathRecords[d].autoConfirmAt <= MaxTime)
        ~> (d \in RecordIds /\ deathRecords[d].status \in {"CONFIRMED", "DISPUTED"})

\* the record of a lone reporter, confirmed by the job at its deadline
C25_Witness ==
    /\ pc[SweepProc] = "idle" /\ result.op = "sweep"
    /\ Len(deathRecords) >= 1
    /\ deathRecords[1].confirmationsNeeded = 0
    /\ deathRecords[1].status = "CONFIRMED"
    /\ deathRecords[1].autoConfirmAt # NULL
    /\ deathRecords[1].confirmedAt >= deathRecords[1].autoConfirmAt
    /\ Len(deathConfirmations) = 0
    /\ relatives[deathRecords[1].relativeId].status = "DECEASED"

\* C26: a step changes the row of a relative only when it is the commit of a
\* finalization whose CAS found the record PENDING: the same step makes the
\* record CONFIRMED, and the relative's row becomes DECEASED with the
\* record's death year, month and day.  Every other step of reportDeath, of
\* confirmDeath (below the threshold, a dispute, a rejection), of a
\* finalization that finds the record not PENDING or that fails, and of the
\* job leaves every relative as it is.
C26_RelativeWrittenByFinalize ==
    [][/\ \A r \in Relatives :
             relatives'[r] # relatives[r] =>
                 \E p \in Procs :
                     /\ pc[p] = "f_commit"
                     /\ tx[p].active /\ ~tx'[p].active
                     /\ tx[p].recId \in RecordIds
                     /\ deathRecords[tx[p].recId].relativeId = r
                     /\ deathRecords[tx[p].recId].status = "PENDING"
                     /\ deathRecords'[tx[p].recId].status = "CONFIRMED"
       /\ \A d \in RecordIds :
             (deathRecords[d].status = "PENDING" /\ deathRecords'[d].status = "CONFIRMED")
                 => relatives'[deathRecords[d].relativeId] =
                        [status |-> "DECEASED",
                         deathYear |-> deathRecords[d].deathYear,
                         deathMonth |-> deathRecords[d].deathMonth,
                         deathDay |-> deathRecords[d].deathDay]
       /\ \A p \in ApiProcs :
             (Steps(p) /\ pc[p] \notin {"f_commit"}) => relatives' = relatives]_vars

\* a first report was disputed and left the relative ALIVE, so a second
\* report was accepted; its finalization made the relative DECEASED with the
\* date of the second record
C26_Witness ==
    /\ Len(deathRecords) = 2
    /\ deathRecords[1].status = "DISPUTED"
    /\ effects[1].relative = 0
    /\ deathRecords[2].status = "CONFIRMED"
    /\ effects[2].relative = 1
    /\ HasFullDate(deathRecords[2])
    /\ relatives[deathRecords[2].relativeId] =
           [status |-> "DECEASED", deathYear |-> deathRecords[2].deathYear,
            deathMonth |-> deathRecords[2].deathMonth,
            deathDay |-> deathRecords[2].deathDay]

\* C27: a confirmDeath call for a record that does not exist is rejected with
\* NotFound; a call of a user who is not a member of the tree is rejected
\* with Forbidden; a call of a member for a record it read with a status
\* other than PENDING is rejected with BadRequest.  A step that rejects a
\* confirmDeath call inserts no death_confirmations row and changes no
\* death record.
C27_ConfirmRejections ==
    [][/\ (calls' # calls /\ result'.op = "confirm" /\ pc' = pc) =>
             /\ result'.kind = "NOT_FOUND"
             /\ result'.recId \notin RecordIds
             /\ deathConfirmations' = deathConfirmations
             /\ deathRecords' = deathRecords
       /\ \A p \in ApiProcs :
             /\ (pc[p] = "idle" /\ pc'[p] = "c_access") =>
                    loc'[p].record.id \in RecordIds
             /\ (pc[p] = "c_access" /\ Steps(p) /\ members[loc[p].user] = "none") =>
                    /\ pc'[p] = "idle"
                    /\ result'.kind = "FORBIDDEN"
             /\ (pc[p] = "c_access" /\ Steps(p) /\ members[loc[p].user] # "none"
                                    /\ loc[p].record.status # "PENDING") =>
                    /\ pc'[p] = "idle"
                    /\ result'.kind = "BAD_REQUEST"
             /\ (loc[p].op = "confirm" /\ pc[p] # "idle" /\ pc'[p] = "idle"
                                       /\ result'.kind # "OK") =>
                    /\ deathConfirmations' = deathConfirmations
                    /\ deathRecords' = deathRecords]_vars

\* a user outside the tree tried to confirm a PENDING record
C27_Witness ==
    /\ result.kind = "FORBIDDEN" /\ result.op = "confirm"
    /\ result.recId \in RecordIds
    /\ members[result.user] = "none"
    /\ deathRecords[result.recId].status = "PENDING"
    /\ deathRecords[result.recId].reportedBy # result.user
    /\ Len(deathConfirmations) = 0
    /\ events = 0

\* C28: when an invocation of the notification job has returned, every
\* ACTIVE tree it did not log as failed has, for every member of the tree and
\* every event of the tree in today .. today + 7 days, a notification with
\* that userId, type, relativeId and eventDate.  Every notification belongs
\* to an ACTIVE tree and to a member and an event of that tree: a tree that
\* is not ACTIVE gets none.
C28_NotificationsComplete ==
    /\ \A k \in NotifyRuns : (npc[k] = "done" /\ ~nloc[k].error) =>
           \A t \in Trees :
               (trees[t].status = "ACTIVE" /\ t \notin nloc[k].failedTreeIds) =>
                   \A i \in 1..Len(trees[t].events) : \A u \in trees[t].members :
                       \E j \in 1..Len(notifications) :
                           notifications[j] =
                               [userId |-> u, treeId |-> t,
                                type |-> trees[t].events[i].type,
                                relativeId |-> trees[t].events[i].relativeId,
                                eventDate |-> trees[t].events[i].date]
    /\ \A j \in 1..Len(notifications) :
           LET n == notifications[j]
           IN /\ trees[n.treeId].status = "ACTIVE"
              /\ n.userId \in trees[n.treeId].members
              /\ FromDay <= n.eventDate /\ n.eventDate <= ToDay
              /\ \E i \in 1..Len(trees[n.treeId].events) :
                     /\ trees[n.treeId].events[i].type = n.type
                     /\ trees[n.treeId].events[i].relativeId = n.relativeId
                     /\ trees[n.treeId].events[i].date = n.eventDate

\* an ACTIVE tree with two members and two events has its four
\* notifications, a DORMANT tree with an event has none
C28_Witness ==
    /\ npc[1] = "done" /\ ~nloc[1].error /\ nloc[1].failedTreeIds = {}
    /\ \E t1, t2 \in Trees :
           /\ trees[t1].status = "ACTIVE"
           /\ Cardinality(trees[t1].members) = 2
           /\ Len(trees[t1].events) = 2
           /\ trees[t1].events[1] # trees[t1].events[2]
           /\ Cardinality({j \in 1..Len(notifications) :
                               notifications[j].treeId = t1}) = 4
           /\ trees[t2].status = "DORMANT"
           /\ trees[t2].events # <<>>
           /\ Len(notifications) = 4

\* C29: a record whose finalization has made its relative DECEASED or has
\* inserted its commemorations is CONFIRMED: no PENDING and no DISPUTED
\* record has effects of a finalization.
C29_EffectsImplyConfirmed ==
    \A d \in RecordIds :
        (effects[d].relative > 0 \/ effects[d].commSets > 0)
            => deathRecords[d].status = "CONFIRMED"

\* the step makes record d CONFIRMED
BecomesConfirmed(d) ==
    /\ deathRecords[d].status # "CONFIRMED"
    /\ deathRecords'[d].status = "CONFIRMED"

\* C30 (as stated): a record becomes CONFIRMED only when it has
\* confirmationsNeeded >= 1 and at least that many confirmed = true rows, or
\* confirmationsNeeded = 0 and an autoConfirmAt that has passed.
C30_ConfirmedOnlyAtQuorum ==
    [][\A d \in RecordIds :
          BecomesConfirmed(d) =>
              \/ /\ deathRecords[d].confirmationsNeeded >= 1
                 /\ totalConfirms(d) >= deathRecords[d].confirmationsNeeded
              \/ /\ deathRecords[d].confirmationsNeeded = 0
                 /\ deathRecords[d].autoConfirmAt # NULL
                 /\ deathRecords[d].autoConfirmAt <= now]_vars

\* C30 (amended): a record becomes CONFIRMED only at the commit of a
\* finalization, either of a confirmDeath call whose caller's confirmed = true
\* row is in the table, with at least confirmationsNeeded such rows, or of
\* the job, for a record with confirmationsNeeded = 0 whose autoConfirmAt has
\* passed.  A record with confirmationsNeeded >= 1 is confirmed by its quorum
\* only; a record with confirmationsNeeded = 0 is confirmed by the first
\* confirmation, also before its autoConfirmAt.
C30_ConfirmedByQuorumOrDeadline ==
    [][\A d \in RecordIds :
          BecomesConfirmed(d) =>
              \E p \in Procs :
                  /\ pc[p] = "f_commit" /\ tx[p].active /\ tx[p].recId = d
                  /\ IF p = SweepProc
                       THEN /\ deathRecords[d].confirmationsNeeded = 0
                            /\ deathRecords[d].autoConfirmAt # NULL
                            /\ deathRecords[d].autoConfirmAt <= now
                       ELSE /\ loc[p].op = "confirm"
                            /\ totalConfirms(d) >= deathRecords[d].confirmationsNeeded
                            /\ \E i \in 1..Len(deathConfirmations) :
                                   deathConfirmations[i] =
                                       [deathRecordId |-> d, userId |-> loc[p].user,
                                        confirmed |-> TRUE]]_vars

\* the record of a lone reporter, confirmed before its deadline by the
\* confirmation of a member who joined after the report
C30_Witness ==
    /\ result.kind = "OK" /\ result.op = "confirm" /\ result.status = "CONFIRMED"
    /\ result.recId \in RecordIds
    /\ deathRecords[result.recId].confirmationsNeeded = 0
    /\ deathRecords[result.recId].status = "CONFIRMED"
    /\ deathRecords[result.recId].autoConfirmAt # NULL
    /\ deathRecords[result.recId].confirmedAt < deathRecords[result.recId].autoConfirmAt
    /\ totalConfirms(result.recId) = 1

\* the step inserts death record d
Inserted(d) == Len(deathRecords) = d - 1 /\ Len(deathRecords') = d

\* C31: no death record is inserted for a relative whose row says DECEASED
\* at the insert.
C31_NoReportForDeceased ==
    [][\A d \in 1..MaxRecords :
          Inserted(d) => relatives[deathRecords'[d].relativeId].status # "DECEASED"]_vars

\* the CONFIRMED records of relative r
ConfirmedOf(r) ==
    {d \in RecordIds : deathRecords[d].relativeId = r /\ deathRecords[d].status = "CONFIRMED"}

\* C32: at most one death record of a relative is CONFIRMED, the relative
\* has been made DECEASED at most once and has at most one set of four
\* commemorations.
C32_OneConfirmedPerRelative ==
    \A r \in Relatives :
        /\ Cardinality({d \in RecordIds : /\ deathRecords[d].relativeId = r
                                          /\ effects[d].confirmed > 0}) <= 1
        /\ Cardinality({d \in RecordIds : /\ deathRecords[d].relativeId = r
                                          /\ effects[d].relative > 0}) <= 1
        /\ Cardinality({i \in 1..Len(commemorations) :
                            commemorations[i].relativeId = r}) <= 4

\* C33: a death_confirmations row is inserted only for a record whose row
\* says PENDING at the insert.
C33_InsertOnlyWhilePending ==
    [][\A p \in ApiProcs :
          (pc[p] = "c_insert" /\ Len(deathConfirmations') > Len(deathConfirmations))
              => deathRecords[loc[p].record.id].status = "PENDING"]_vars

\* a confirmDeath call of process p returns a record in this step
ConfirmReturnsRecord(p) ==
    /\ loc[p].op = "confirm"
    /\ pc[p] # "idle"
    /\ pc'[p] = "idle"
    /\ result'.kind = "OK"

C35_NoDuplicateNotifications ==
    \A i, j \in 1..Len(notifications) :
        i # j =>
            notificationKey(notifications[i].userId, notifications[i].type,
                            notifications[i].relativeId, notifications[i].eventDate)
          # notificationKey(notifications[j].userId, notifications[j].type,
                            notifications[j].relativeId, notifications[j].eventDate)

\* the calls of redeemLegacyKey for key k that have returned or thrown
RedeemOuts(k) == {o \in louts : o.op = "redeem" /\ o.key = k}

\* the call of process p ends in this step with something thrown
LegacyThrows(p) ==
    /\ lpc[p] # "idle"
    /\ lpc'[p] = "idle"
    /\ \E o \in louts' \ louts : o.kind # "OK"

\* every redeemLegacyKey that has ended ended as the state of the key and of
\* the memberships says
RedeemOutcomesJustified ==
    \A k \in Keys :
        /\ redeems[k] <= 1
        /\ Cardinality({o \in RedeemOuts(k) : o.kind = "OK"}) <= redeems[k]
        /\ \A o \in RedeemOuts(k) :
              /\ o.kind \in {"OK", "NOT_FOUND", "FORBIDDEN", "CONFLICT", "DB_ERROR"}
              /\ o.kind = "OK" =>
                    /\ lkeys[k].usedBy = o.user
                    /\ lkeys[k].status # "ACTIVE"
                    /\ lmembers[o.user] = "editor"
              /\ o.kind = "NOT_FOUND" => lkeys[k].status # "ACTIVE"
              /\ o.kind = "FORBIDDEN" =>
                    lkeys[k].recipientEmail \notin {NULL, Email(o.user)}
              /\ o.kind \in {"CONFLICT", "DB_ERROR"} => lmembers[o.user] # "none"
        /\ redeems[k] = 0 =>
              /\ lkeys[k].usedBy = NULL /\ lkeys[k].usedAt = NULL
              /\ lkeys[k].status \in {"ACTIVE", "REVOKED"}

\* C36: a legacy key is redeemed at most once.  The commit of a redemption
\* finds the key ACTIVE and never redeemed, leaves it USED with the caller
\* as usedBy and makes the caller, no member before, an editor; every other
\* redeemLegacyKey of the key throws (NotFound once the key is not ACTIVE) and
\* a call that throws changes neither the key nor the memberships; a call
\* rejected for the email or for an existing membership leaves the key ACTIVE
\* with usedBy and usedAt null.
C36_RedeemedAtMostOnce ==
    [][/\ RedeemOutcomesJustified'
       /\ (lmembers' # lmembers \/ redeems' # redeems) =>
             \E p \in LegacyProcs : lpc[p] = "r_commit" /\ lpc'[p] = "r_tree"
       /\ \A p \in LegacyProcs :
             /\ (lpc[p] = "r_commit" /\ lpc'[p] # "r_commit") =>
                   /\ lkeys[lloc[p].key].status = "ACTIVE"
                   /\ redeems[lloc[p].key] = 0
                   /\ lkeys'[lloc[p].key].status = "USED"
                   /\ lkeys'[lloc[p].key].usedBy = lloc[p].user
                   /\ lmembers[lloc[p].user] = "none"
                   /\ lmembers'[lloc[p].user] = "editor"
                   /\ \A u \in Users \ {lloc[p].user} : lmembers'[u] = lmembers[u]
             /\ (lloc[p].op = "redeem" /\ LegacyThrows(p)) =>
                   lkeys' = lkeys /\ lmembers' = lmembers
             /\ (lpc[p] = "r_rollback" /\ lpc'[p] = "idle") =>
                   /\ lkeys'[lloc[p].key].status = "ACTIVE"
                   /\ lkeys'[lloc[p].key].usedBy = NULL
                   /\ lkeys'[lloc[p].key].usedAt = NULL]_vars

\* two redemptions of one key at the same time: the one that won has
\* committed and not yet returned, the other has thrown NotFound
C36_Witness ==
    \E p \in LegacyProcs, u \in Users :
        /\ lpc[p] = "r_tree"
        /\ u # lloc[p].user
        /\ lkeys[lloc[p].key].status = "USED"
        /\ lkeys[lloc[p].key].usedBy = lloc[p].user
        /\ [op |-> "redeem", user |-> u, key |-> lloc[p].key, kind |-> "NOT_FOUND"] \in louts
        /\ lmembers[u] = "none"
        /\ lmembers[lloc[p].user] = "editor"

\* C37: a key through which a membership was granted is never REVOKED, and
\* no redemption commits on a REVOKED key.
C37_UsedAndRevokedExclusive ==
    [][/\ \A k \in Keys : redeems'[k] > 0 => lkeys'[k].status # "REVOKED"
       /\ \A p \in LegacyProcs :
             (lpc[p] = "r_commit" /\ lpc'[p] # "r_commit") =>
                 lkeys[lloc[p].key].status # "REVOKED"]_vars

CommemorationEventTypes ==
    {"COMMEMORATION_40", "COMMEMORATION_6M", "COMMEMORATION_1Y", "COMMEMORATION_ANNUAL"}

\* the commemoration rows whose date lies in the range of the call
CommRowsInRange ==
    {j \in 1..Len(evComms) :
        /\ DayNumber(EventsFrom) <= DayNumber(parseISODate(evComms[j].commDate))
        /\ DayNumber(parseISODate(evComms[j].commDate)) <= DayNumber(EventsTo)}

\* C38: getTreeEvents returns no BIRTHDAY and no NAME_DAY event of a
\* DECEASED relative, ON_THIS_DAY events only of DECEASED relatives with a
\* death month and day (on that day of the year), one commemoration event
\* for every commemoration row with a date in the range and none for the
\* others, and the list in ascending order of the date and, on one date, of
\* the type priority.
C38_EventProjection ==
    epc = "returned" =>
        /\ \A i \in 1..Len(evReturned) :
              LET ev == evReturned[i]
                  rel == evRelatives[ev.relativeId]
              IN /\ ev.type \in {"BIRTHDAY", "NAME_DAY"} => rel.status # "DECEASED"
                 /\ ev.type = "ON_THIS_DAY" =>
                       /\ rel.status = "DECEASED"
                       /\ rel.deathMonth # NULL /\ rel.deathDay # NULL
                       /\ parseISODate(ev.date).m = rel.deathMonth
                       /\ parseISODate(ev.date).d = rel.deathDay
        /\ Cardinality({i \in 1..Len(evReturned) :
                            evReturned[i].type \in CommemorationEventTypes})
             = Cardinality(CommRowsInRange)
        /\ \A j \in CommRowsInRange :
              Cardinality({i \in 1..Len(evReturned) :
                              /\ evReturned[i].type = COMM_TYPE_MAP(evComms[j].type)
                              /\ evReturned[i].relativeId = evComms[j].relativeId
                              /\ evReturned[i].date = evComms[j].commDate})
                = Cardinality({k \in CommRowsInRange :
                              /\ evComms[k].type = evComms[j].type
                              /\ evComms[k].relativeId = evComms[j].relativeId
                              /\ evComms[k].commDate = evComms[j].commDate})
        /\ \A i, j \in 1..Len(evReturned) :
              i < j =>
                  LET di == DayNumber(parseISODate(evReturned[i].date))
                      dj == DayNumber(parseISODate(evReturned[j].date))
                  IN /\ di <= dj
                     /\ di = dj => TYPE_PRIORITY(evReturned[i].type)
                                     <= TYPE_PRIORITY(evReturned[j].type)

\* a call for a tree with a DECEASED relative who has a birthday and a name
\* day in the range and a full death date: the relative's ON_THIS_DAY and
\* commemoration events are returned, and the sort has moved events
C38_Witness ==
    /\ epc = "returned"
    /\ \E r \in EventRelatives :
          /\ evRelatives[r].status = "DECEASED"
          /\ evRelatives[r].birthMonth # NULL
          /\ evRelatives[r].nameMonth # NULL
          /\ \E i \in 1..Len(evReturned) :
                evReturned[i].type = "ON_THIS_DAY" /\ evReturned[i].relativeId = r
          /\ \E i \in 1..Len(evReturned) :
                evReturned[i].type \in CommemorationEventTypes /\ evReturned[i].relativeId = r
    /\ \E i \in 1..Len(evReturned) : evReturned[i].type = "BIRTHDAY"
    /\ Len(evComms) > Cardinality(CommRowsInRange)
    /\ Cardinality(CommRowsInRange) > 1
    /\ evReturned # computedEvents(EventsFrom, EventsTo)

====
